---- MODULE Spec2Model ----
(***************************************************************************)
(* Unit algebra and Quantity operations of the `quantity` crate and of its *)
(* `si-units` binding.  A Dimension Vector is a 7-tuple of i8 exponents;   *)
(* a Quantity pairs a value with a Dimension Vector.  f64 values are       *)
(* modelled as extended rationals num/den (den = 0 encodes +-inf and NaN), *)
(* functions the model cannot expand (powi, sqrt, ...) are kept as a tag   *)
(* on the rational they were applied to.                                   *)
(***************************************************************************)
EXTENDS Integers, Sequences, FiniteSets, TLC

VARIABLES build, x, arr, lazy, last, res

vars == <<build, x, arr, lazy, last, res>>

\* a LazyLock cell: empty until its first use, then holding the built value
LazyLock_new == [init |-> FALSE, map |-> <<>>]

\* the process-wide lazily built tables before any use
LazyInit == [PREFIX_SYMBOLS |-> LazyLock_new]

(***************************************************************************)
(* Bounds of the model.                                                    *)
(***************************************************************************)
\* scalar values of sampled quantities are the integers -MaxVal..MaxVal
MaxVal == 2
\* sequences handed to the array constructors have at most MaxSeq elements
MaxSeq == 3

\* length of the sampled array-valued quantities
ArrLen == 2

(***************************************************************************)
(* Program constants.                                                      *)
(***************************************************************************)
\* documented range of the exponents of a Dimension Vector
MinExp == -20
MaxExp == 20

I8_MIN == -128
I8_MAX == 127
I32_MIN == (-2147483647) - 1
I32_MAX == 2147483647

Dim == 1..7

(***************************************************************************)
(* Machine integers.                                                       *)
(***************************************************************************)
\* `i as i8`: keep the low 8 bits, two's complement
as_i8(i) ==
    LET m == i % 256 IN IF m >= 128 THEN m - 256 ELSE m

fits_i8(v) == v >= I8_MIN /\ v <= I8_MAX

Abs(v) == IF v < 0 THEN -v ELSE v

\* i8 `/` and `%` truncate towards zero (defined for b # 0)
i8_div(a, b) ==
    LET q == Abs(a) \div Abs(b)
    IN  IF (a < 0) = (b < 0) THEN q ELSE -q

i8_rem(a, b) ==
    LET r == Abs(a) % Abs(b)
    IN  IF a < 0 THEN -r ELSE r

\* `/` and `%` panic in every build on a zero divisor and on i8::MIN / -1
i8_divrem_panics(a, b) == b = 0 \/ (a = I8_MIN /\ b = -1)

(***************************************************************************)
(* f64 values.                                                             *)
(***************************************************************************)
Gcd(a, b) ==
    LET RECURSIVE G(_, _)
        G(p, q) == IF q = 0 THEN p ELSE G(q, p % q)
    IN  G(Abs(a), Abs(b))

\* canonical form of num/den; 1/0 = inf, -1/0 = -inf, 0/0 = NaN
Norm(n, d) ==
    IF d = 0
    THEN [num |-> IF n > 0 THEN 1 ELSE IF n < 0 THEN -1 ELSE 0, den |-> 0,
          fn |-> "id", arg |-> 0]
    ELSE LET g == Gcd(n, d)
             s == IF d < 0 THEN -1 ELSE 1
         IN  [num |-> s * (n \div g), den |-> s * (d \div g),
              fn |-> "id", arg |-> 0]

F64(n) == Norm(n, 1)

NaN == Norm(0, 0)

is_nan(v) == v.den = 0 /\ v.num = 0

f64_add(a, b) ==
    IF a.den = 0 \/ b.den = 0
    THEN IF is_nan(a) \/ is_nan(b) THEN NaN
         ELSE IF a.den = 0 /\ b.den = 0
              THEN IF a.num = b.num THEN a ELSE NaN
              ELSE IF a.den = 0 THEN a ELSE b
    ELSE Norm(a.num * b.den + b.num * a.den, a.den * b.den)

f64_neg(a) == [a EXCEPT !.num = -a.num]

f64_sub(a, b) == f64_add(a, f64_neg(b))

f64_mul(a, b) ==
    IF is_nan(a) \/ is_nan(b) THEN NaN
    ELSE Norm(a.num * b.num, a.den * b.den)

f64_div(a, b) ==
    IF is_nan(a) \/ is_nan(b) THEN NaN
    ELSE LET n == a.num * b.den
             d == a.den * b.num
         IN  IF d = 0 /\ b.num < 0 THEN Norm(-n, 0) ELSE Norm(n, d)

\* comparisons of f64: every comparison with NaN but `!=` is false
f64_eq(a, b) == ~is_nan(a) /\ ~is_nan(b) /\ a.num = b.num /\ a.den = b.den

f64_lt(a, b) ==
    /\ ~is_nan(a) /\ ~is_nan(b)
    /\ IF a.den = 0 THEN a.num < 0 /\ ~(b.den = 0 /\ b.num < 0)
       ELSE IF b.den = 0 THEN b.num > 0
       ELSE a.num * b.den < b.num * a.den

\* f64::partial_cmp
f64_partial_cmp(a, b) ==
    IF is_nan(a) \/ is_nan(b) THEN "None"
    ELSE IF f64_lt(a, b) THEN "Less"
    ELSE IF f64_eq(a, b) THEN "Equal"
    ELSE "Greater"

\* a function of one f64 the model keeps unexpanded
f64_apply(f, a, n) == [a EXCEPT !.fn = f, !.arg = n]

f64_powi(a, i) == f64_apply("powi", a, i)
f64_sqrt(a) == f64_apply("sqrt", a, 0)
f64_cbrt(a) == f64_apply("cbrt", a, 0)
\* value.powf(1.0 / i as f64)
f64_powf_inv(a, i) == f64_apply("powf_inv", a, i)

(***************************************************************************)
(* Dimension Vectors (SIUnit).                                             *)
(***************************************************************************)
DIMENSIONLESS == <<0, 0, 0, 0, 0, 0, 0>>

_METER == <<1, 0, 0, 0, 0, 0, 0>>
_KILOGRAM == <<0, 1, 0, 0, 0, 0, 0>>
_SECOND == <<0, 0, 1, 0, 0, 0, 0>>
_KELVIN == <<0, 0, 0, 0, 0, 1, 0>>
_NEWTON == <<1, 1, -2, 0, 0, 0, 0>>
_PASCAL == <<-1, 1, -2, 0, 0, 0, 0>>
_FARAD == <<-2, -1, 4, 2, 0, 0, 0>>

\* a test of the sum of the exponents instead of every exponent
is_dimensionless_sum(u) == u[1] + u[2] + u[3] + u[4] + u[5] + u[6] + u[7] = 0

is_dimensionless(u) == u = DIMENSIONLESS

\* result of an i8 computation whose exact value is v: a build with overflow
\* checks panics on overflow, a build without them wraps
Overflows(exact) == \E i \in Dim : ~fits_i8(exact[i])

\* the [i8; 7] array built from a component function
Vec7(f) == <<f[1], f[2], f[3], f[4], f[5], f[6], f[7]>>

I8Outcome(exact, checks) ==
    IF Overflows(exact) /\ checks
    THEN [kind |-> "panic", unit |-> <<>>]
    ELSE [kind |-> "ok", unit |-> Vec7([i \in Dim |-> as_i8(exact[i])])]

\* impl Mul for SIUnit
SIUnit_mul(a, b, checks) == I8Outcome([i \in Dim |-> a[i] + b[i]], checks)

\* a slip in the last component of the quotient
SIUnit_div_slip(a, b, checks) ==
    I8Outcome([i \in Dim |-> IF i = 7 THEN a[i] + b[i] ELSE a[i] - b[i]], checks)

\* impl Div for SIUnit
SIUnit_div(a, b, checks) == I8Outcome([i \in Dim |-> a[i] - b[i]], checks)

\* SIUnit::powi
SIUnit_powi(a, i, checks) ==
    LET i8 == as_i8(i)
    IN  I8Outcome([k \in Dim |-> a[k] * i8], checks)

\* SIUnit::root
SIUnit_root(a, i) ==
    LET i8 == as_i8(i)
    IN  IF \E k \in Dim : i8_divrem_panics(a[k], i8)
        THEN [kind |-> "panic", unit |-> <<>>]
        ELSE IF \A k \in Dim : i8_rem(a[k], i8) = 0
        THEN [kind |-> "ok", unit |-> Vec7([k \in Dim |-> i8_div(a[k], i8)])]
        ELSE [kind |-> "err", unit |-> <<>>]

\* SIUnit::sqrt
SIUnit_sqrt(a) == SIUnit_root(a, 2)

\* SIUnit::cbrt
SIUnit_cbrt(a) == SIUnit_root(a, 3)

(***************************************************************************)
(* Sampled inputs.                                                         *)
(***************************************************************************)
\* m^6: has a square and a cube root
_METER6 == <<6, 0, 0, 0, 0, 0, 0>>
\* the corners of the documented exponent range
UnitMax == <<MaxExp, MaxExp, MaxExp, MaxExp, MaxExp, MaxExp, MaxExp>>
UnitMin == <<MinExp, MinExp, MinExp, MinExp, MinExp, MinExp, MinExp>>

SampleUnits ==
    {DIMENSIONLESS, _METER, _KELVIN, _NEWTON, _PASCAL, _FARAD, _METER6,
     UnitMax, UnitMin}

Vals == {F64(n) : n \in (-MaxVal)..MaxVal}

Quantities == [value : Vals, unit : SampleUnits]

\* i32 arguments of powi and root
Indices ==
    {I32_MIN, -257, -256, -129, -128, -3, -2, -1, 0, 1, 2, 3, 4, 7,
     127, 128, 255, 256, 257, 258, I32_MAX}

\* overflow-checks on (debug profile) or off (release profile)
Builds == {"debug", "release"}

overflow_checks == build = "debug"

CompareOp == {"Eq", "Ne", "Lt", "Le", "Gt", "Ge"}

(***************************************************************************)
(* Results of a call.                                                      *)
(***************************************************************************)
NoValue == [num |-> 0, den |-> 0, fn |-> "none", arg |-> 0]

NoQuantity == [value |-> NoValue, unit |-> <<>>]

NoErr == [type |-> "none", op |-> "", u1 |-> <<>>, u2 |-> <<>>]

Idle ==
    [kind |-> "none", value |-> NoValue, unit |-> <<>>, flag |-> "none",
     arrv |-> <<>>, err |-> NoErr]

\* a returned scalar Quantity
OkQuantity(v, u) == [Idle EXCEPT !.kind = "ok", !.value = v, !.unit = u]

\* a returned bare f64
OkValue(v) == [Idle EXCEPT !.kind = "ok", !.value = v]

\* a returned bool
OkBool(b) == [Idle EXCEPT !.kind = "ok", !.flag = IF b THEN "true" ELSE "false"]

\* a returned array-valued Quantity
OkArray(vs, u) == [Idle EXCEPT !.kind = "ok", !.arrv = vs, !.unit = u]

\* Ok(()) / a completed in-place operation
OkUnit == [Idle EXCEPT !.kind = "ok"]

\* Err(..) or a raised Python exception: the caller goes on
Err(type, op, u1, u2) ==
    [Idle EXCEPT !.kind = "err",
                 !.err = [type |-> type, op |-> op, u1 |-> u1, u2 |-> u2]]

\* panic!: the fatal stop
Panic(op, u1, u2) ==
    [Idle EXCEPT !.kind = "panic",
                 !.err = [type |-> "panic", op |-> op, u1 |-> u1, u2 |-> u2]]

\* QuantityError::UnitError { op, expected, found }
UnitError(op, expected, found) == Err("UnitError", op, expected, found)

\* QuantityError::InconsistentUnits { unit1, unit2 }
InconsistentUnits(unit1, unit2) == Err("InconsistentUnits", "", unit1, unit2)

NoCall ==
    [op |-> "none", cmp |-> "none", x0 |-> NoQuantity, y |-> NoQuantity,
     i |-> 0, j |-> 0, idx |-> 0, seq |-> <<>>, arr0 |-> NoQuantity]

(***************************************************************************)
(* Quantity: operations on scalar quantities (core crate).                 *)
(***************************************************************************)
\* Quantity::has_unit
has_unit(p, q) == p.unit = q.unit

\* impl_mul_op!(Mul ..): Quantity * Quantity
mul(p, q, checks) ==
    LET u == SIUnit_mul(p.unit, q.unit, checks)
    IN  IF u.kind = "panic" THEN Panic("overflow", p.unit, q.unit)
        ELSE OkQuantity(f64_mul(p.value, q.value), u.unit)

\* impl_mul_op!(Div ..): Quantity / Quantity
div(p, q, checks) ==
    LET u == SIUnit_div(p.unit, q.unit, checks)
    IN  IF u.kind = "panic" THEN Panic("overflow", p.unit, q.unit)
        ELSE OkQuantity(f64_div(p.value, q.value), u.unit)

\* impl_add_op!(Add ..): Quantity + Quantity
add(p, q) ==
    IF p.unit = q.unit
    THEN OkQuantity(f64_add(p.value, q.value), p.unit)
    ELSE Panic("+", p.unit, q.unit)

\* impl_add_op!(Sub ..): Quantity - Quantity
sub(p, q) ==
    IF p.unit = q.unit
    THEN OkQuantity(f64_sub(p.value, q.value), p.unit)
    ELSE Panic("-", p.unit, q.unit)

\* `p += q` that updates the value before it looks at the units
add_assign_unchecked(p, q) == [p EXCEPT !.value = f64_add(p.value, q.value)]

\* impl_add_op!(.. AddAssign ..): the left operand after `p += q`
add_assign(p, q) ==
    IF p.unit # q.unit THEN p
    ELSE [p EXCEPT !.value = f64_add(p.value, q.value)]

\* impl_add_op!(.. SubAssign ..): the left operand after `p -= q`
sub_assign(p, q) ==
    IF p.unit # q.unit THEN p
    ELSE [p EXCEPT !.value = f64_sub(p.value, q.value)]

\* what `p += q` / `p -= q` reports
assign_outcome(op, p, q) ==
    IF p.unit # q.unit THEN Panic(op, p.unit, q.unit) ELSE OkUnit

\* eq that answers false for different units, as abs_diff_eq does
eq_lenient(p, q) ==
    IF p.unit = q.unit THEN OkBool(f64_eq(p.value, q.value)) ELSE OkBool(FALSE)

\* impl PartialEq for Quantity: eq
eq(p, q) ==
    IF p.unit = q.unit THEN OkBool(f64_eq(p.value, q.value))
    ELSE Panic("eq", p.unit, q.unit)

\* impl PartialOrd for Quantity: partial_cmp
partial_cmp(p, q) ==
    IF p.unit = q.unit THEN f64_partial_cmp(p.value, q.value)
    ELSE "panic"

\* the operators ==, !=, <, <=, >, >= as the language derives them from
\* eq and partial_cmp
compare(op, p, q) ==
    IF op \in {"Eq", "Ne"}
    THEN LET e == eq(p, q)
         IN  IF e.kind = "panic" THEN e
             ELSE OkBool((e.flag = "true") = (op = "Eq"))
    ELSE LET c == partial_cmp(p, q)
         IN  IF c = "panic" THEN Panic("partial_cmp", p.unit, q.unit)
             ELSE OkBool(CASE op = "Lt" -> c = "Less"
                           [] op = "Le" -> c \in {"Less", "Equal"}
                           [] op = "Gt" -> c = "Greater"
                           [] op = "Ge" -> c \in {"Greater", "Equal"})

\* Quantity::value
value(p) ==
    IF is_dimensionless(p.unit) THEN OkValue(p.value)
    ELSE UnitError("value", DIMENSIONLESS, p.unit)

\* Quantity::into_value
into_value(p) ==
    IF is_dimensionless(p.unit) THEN OkValue(p.value)
    ELSE UnitError("into_value", DIMENSIONLESS, p.unit)

\* to_reduced that returns the quotient of the values whatever the units
to_reduced_unchecked(p, reference, checks) ==
    LET d == div(p, reference, checks)
    IN  IF d.kind = "panic" THEN d ELSE OkValue(d.value)

\* Quantity::to_reduced
to_reduced(p, reference, checks) ==
    LET d == div(p, reference, checks)
    IN  IF d.kind = "panic" THEN d
        ELSE into_value([value |-> d.value, unit |-> d.unit])

\* QuantityError::SINumberError { op: "root", .. } of impl Unit for SIUnit,
\* QuantityError::InvalidRoot of the binding's SIUnit
InvalidRoot(u) == Err("InvalidRoot", "root", u, <<>>)

\* Quantity::powi (scalar)
powi(p, i, checks) ==
    LET u == SIUnit_powi(p.unit, i, checks)
    IN  IF u.kind = "panic" THEN Panic("overflow", p.unit, <<>>)
        ELSE OkQuantity(f64_powi(p.value, i), u.unit)

\* the value is computed first, then `unit.root(i)?`
unit_root_outcome(v, a, u) ==
    CASE u.kind = "panic" -> Panic("root", a, <<>>)
      [] u.kind = "err" -> InvalidRoot(a)
      [] u.kind = "ok" -> OkQuantity(v, u.unit)

\* Quantity::sqrt (scalar)
sqrt(p) == unit_root_outcome(f64_sqrt(p.value), p.unit, SIUnit_sqrt(p.unit))

\* Quantity::cbrt (scalar)
cbrt(p) == unit_root_outcome(f64_cbrt(p.value), p.unit, SIUnit_cbrt(p.unit))

\* Quantity::root (scalar)
root(p, i) ==
    unit_root_outcome(f64_powf_inv(p.value, i), p.unit, SIUnit_root(p.unit, i))

(***************************************************************************)
(* Comparisons in the binding.                                             *)
(***************************************************************************)
\* `self.value <op> other.value` on two floats
value_compare(op, a, b) ==
    CASE op = "Eq" -> f64_eq(a, b)
      [] op = "Ne" -> ~f64_eq(a, b)
      [] op = "Lt" -> f64_lt(a, b)
      [] op = "Le" -> f64_lt(a, b) \/ f64_eq(a, b)
      [] op = "Gt" -> f64_lt(b, a)
      [] op = "Ge" -> f64_lt(b, a) \/ f64_eq(a, b)

\* PySIObject::check_units
check_units(p, q) ==
    IF p.unit = q.unit THEN [Idle EXCEPT !.kind = "ok", !.unit = p.unit]
    ELSE InconsistentUnits(p.unit, q.unit)

\* PySIObject::__richcmp__
PySIObject_richcmp(op, p, q) ==
    LET c == check_units(p, q)
    IN  IF c.kind = "err" THEN c
        ELSE OkBool(value_compare(op, p.value, q.value))

\* SINumber::__richcmp__
SINumber_richcmp(op, p, q) ==
    IF p.unit = q.unit THEN OkBool(value_compare(op, p.value, q.value))
    ELSE Err("PyValueError", "", <<>>, <<>>)

(***************************************************************************)
(* Actions on the scalar quantity x.                                       *)
(***************************************************************************)
Ready == res.kind = "none"

Call(op) == [NoCall EXCEPT !.op = op, !.x0 = x]

InRange(v) == v.den = 1 /\ v.num >= -MaxVal /\ v.num <= MaxVal

\* x * y
Quantity_mul ==
    /\ Ready
    /\ \E y \in Quantities :
          /\ res' = mul(x, y, overflow_checks)
          /\ last' = [Call("mul") EXCEPT !.y = y]
    /\ UNCHANGED <<build, x, arr, lazy>>

\* x / y
Quantity_div ==
    /\ Ready
    /\ \E y \in Quantities :
          /\ res' = div(x, y, overflow_checks)
          /\ last' = [Call("div") EXCEPT !.y = y]
    /\ UNCHANGED <<build, x, arr, lazy>>

\* x + y
Quantity_add ==
    /\ Ready
    /\ \E y \in Quantities :
          /\ res' = add(x, y)
          /\ last' = [Call("add") EXCEPT !.y = y]
    /\ UNCHANGED <<build, x, arr, lazy>>

\* x - y
Quantity_sub ==
    /\ Ready
    /\ \E y \in Quantities :
          /\ res' = sub(x, y)
          /\ last' = [Call("sub") EXCEPT !.y = y]
    /\ UNCHANGED <<build, x, arr, lazy>>

\* x += y
Quantity_add_assign ==
    /\ Ready
    /\ \E y \in Quantities :
          /\ InRange(add_assign(x, y).value)
          /\ x' = add_assign(x, y)
          /\ res' = assign_outcome("+=", x, y)
          /\ last' = [Call("add_assign") EXCEPT !.y = y]
    /\ UNCHANGED <<build, arr, lazy>>

\* x -= y
Quantity_sub_assign ==
    /\ Ready
    /\ \E y \in Quantities :
          /\ InRange(sub_assign(x, y).value)
          /\ x' = sub_assign(x, y)
          /\ res' = assign_outcome("-=", x, y)
          /\ last' = [Call("sub_assign") EXCEPT !.y = y]
    /\ UNCHANGED <<build, arr, lazy>>

\* x == y, x != y, x < y, x <= y, x > y, x >= y
Quantity_compare ==
    /\ Ready
    /\ \E y \in Quantities, op \in CompareOp :
          /\ res' = compare(op, x, y)
          /\ last' = [Call("compare") EXCEPT !.y = y, !.cmp = op]
    /\ UNCHANGED <<build, x, arr, lazy>>

\* PySIObject.__richcmp__(x, y, op)
PySIObject___richcmp__ ==
    /\ Ready
    /\ \E y \in Quantities, op \in CompareOp :
          /\ res' = PySIObject_richcmp(op, x, y)
          /\ last' = [Call("PySIObject.__richcmp__") EXCEPT !.y = y, !.cmp = op]
    /\ UNCHANGED <<build, x, arr, lazy>>

\* SINumber.__richcmp__(x, y, op)
SINumber___richcmp__ ==
    /\ Ready
    /\ \E y \in Quantities, op \in CompareOp :
          /\ res' = SINumber_richcmp(op, x, y)
          /\ last' = [Call("SINumber.__richcmp__") EXCEPT !.y = y, !.cmp = op]
    /\ UNCHANGED <<build, x, arr, lazy>>

\* x.value()
Quantity_value ==
    /\ Ready
    /\ res' = value(x)
    /\ last' = Call("value")
    /\ UNCHANGED <<build, x, arr, lazy>>

\* x.into_value()
Quantity_into_value ==
    /\ Ready
    /\ res' = into_value(x)
    /\ last' = Call("into_value")
    /\ UNCHANGED <<build, x, arr, lazy>>

\* x.to_reduced(reference)
Quantity_to_reduced ==
    /\ Ready
    /\ \E reference \in Quantities :
          /\ res' = to_reduced(x, reference, overflow_checks)
          /\ last' = [Call("to_reduced") EXCEPT !.y = reference]
    /\ UNCHANGED <<build, x, arr, lazy>>

\* x.powi(i)
Quantity_powi ==
    /\ Ready
    /\ \E i \in Indices :
          /\ res' = powi(x, i, overflow_checks)
          /\ last' = [Call("powi") EXCEPT !.i = i]
    /\ UNCHANGED <<build, x, arr, lazy>>

\* x.sqrt()
Quantity_sqrt ==
    /\ Ready
    /\ res' = sqrt(x)
    /\ last' = [Call("sqrt") EXCEPT !.i = 2]
    /\ UNCHANGED <<build, x, arr, lazy>>

\* x.cbrt()
Quantity_cbrt ==
    /\ Ready
    /\ res' = cbrt(x)
    /\ last' = [Call("cbrt") EXCEPT !.i = 3]
    /\ UNCHANGED <<build, x, arr, lazy>>

\* x.root(i)
Quantity_root ==
    /\ Ready
    /\ \E i \in Indices :
          /\ res' = root(x, i)
          /\ last' = [Call("root") EXCEPT !.i = i]
    /\ UNCHANGED <<build, x, arr, lazy>>

\* x.powi(i).root(j): the root of the quantity that powi returned
Quantity_powi_root ==
    /\ last.op = "powi"
    /\ res.kind = "ok"
    /\ \E j \in Indices :
          /\ res' = root([value |-> res.value, unit |-> res.unit], j)
          /\ last' = [last EXCEPT !.op = "powi_root", !.j = j]
    /\ UNCHANGED <<build, x, arr, lazy>>

\* the caller takes the result (or handles the error) and goes on; after a
\* panic nothing runs any more
Continue ==
    /\ res.kind \in {"ok", "err"}
    /\ res' = Idle
    /\ last' = NoCall
    /\ UNCHANGED <<build, x, arr, lazy>>

\* the array-valued quantity of the scalar runs
_ARRAY0 == [value |-> <<F64(0), F64(0)>>, unit |-> DIMENSIONLESS]

Init ==
    /\ build \in Builds
    /\ lazy = LazyInit
    /\ x \in Quantities
    /\ arr = _ARRAY0
    /\ last = NoCall
    /\ res = Idle

Next ==
    \/ Quantity_mul
    \/ Quantity_div
    \/ Quantity_add
    \/ Quantity_sub
    \/ Quantity_add_assign
    \/ Quantity_sub_assign
    \/ Quantity_compare
    \/ PySIObject___richcmp__
    \/ SINumber___richcmp__
    \/ Quantity_value
    \/ Quantity_into_value
    \/ Quantity_to_reduced
    \/ Quantity_powi
    \/ Quantity_sqrt
    \/ Quantity_cbrt
    \/ Quantity_root
    \/ Quantity_powi_root
    \/ Continue

Spec == Init /\ [][Next]_vars

Thm_C2 ==
    LET p == last.x0
        q == last.y
        s == IF last.op \in {"add", "add_assign"}
             THEN F64(p.value.num + q.value.num)
             ELSE F64(p.value.num - q.value.num)
    IN  /\ last.op \in {"add", "sub"} =>
              IF p.unit = q.unit
              THEN res.kind = "ok" /\ res.unit = p.unit /\ res.value = s /\ x = p
              ELSE res.kind = "panic" /\ res.value = NoValue
                   /\ res.unit = <<>> /\ x = p
        /\ last.op \in {"add_assign", "sub_assign"} =>
              IF p.unit = q.unit
              THEN res.kind = "ok" /\ x.unit = p.unit /\ x.value = s
              ELSE res.kind = "panic" /\ x = p

Wit_C2 ==
    /\ last.op = "sub_assign"
    /\ last.x0.unit = _PASCAL
    /\ last.y.unit = _KELVIN
    /\ last.y.value # F64(0)
    /\ res.kind = "panic"

\* exact integer facts, stated without machine arithmetic
\* a is an exact multiple of n (n # 0)
ExactlyDivisible(a, n) == IF n = I32_MIN THEN a = 0 ELSE a % Abs(n) = 0

\* c = a * n, for small c and a and any 32-bit n
IsProduct(c, a, n) ==
    IF a = 0 THEN c = 0
    ELSE c % Abs(a) = 0 /\ (IF (c < 0) = (a < 0) THEN 1 ELSE -1) * (Abs(c) \div Abs(a)) = n

\* C3: for a non-zero index n, root succeeds iff every exponent is exactly
\* divisible by n and then divides every exponent by n, otherwise it fails
\* with InvalidRoot; sqrt, cbrt and root of a Quantity return that error and
\* no Quantity when the unit root fails.
CE_C3 ==
    (last.op \in {"root", "sqrt", "cbrt"} /\ last.i # 0) =>
        IF \A k \in Dim : ExactlyDivisible(last.x0.unit[k], last.i)
        THEN /\ res.kind = "ok"
             /\ \A k \in Dim : IsProduct(last.x0.unit[k], res.unit[k], last.i)
        ELSE /\ res.kind = "err"
             /\ res.err.type = "InvalidRoot"
             /\ res.value = NoValue /\ res.unit = <<>>

\* C4: for every 32-bit n, powi gives the unit with every exponent
\* multiplied by n, paired with the value raised to n.
CE_C4 ==
    last.op = "powi" =>
        /\ res.kind = "ok"
        /\ res.value = [last.x0.value EXCEPT !.fn = "powi", !.arg = last.i]
        /\ \A k \in Dim : IsProduct(res.unit[k], last.x0.unit[k], last.i)

\* C5: for exponents within MinExp..MaxExp and every n other than 0, the
\* n-th root of the n-th power succeeds and returns the unit it started from.
CE_C5 ==
    /\ (last.op = "powi" /\ last.i # 0) => res.kind = "ok"
    /\ (last.op = "powi_root" /\ last.i # 0 /\ last.j = last.i) =>
          res.kind = "ok" /\ res.unit = last.x0.unit

\* res is the quotient a / b of two sampled values
IsQuotient(r, a, b) ==
    IF b.num = 0
    THEN r.den = 0 /\ r.num = (IF a.num > 0 THEN 1 ELSE IF a.num < 0 THEN -1 ELSE 0)
    ELSE r.den > 0 /\ r.num * b.num = a.num * r.den

Thm_C7 ==
    last.op \in {"value", "into_value"} =>
        IF \A k \in Dim : last.x0.unit[k] = 0
        THEN res.kind = "ok" /\ res.value = last.x0.value
        ELSE res.kind = "err" /\ res.err.type = "UnitError"
             /\ res.value = NoValue

Wit_C7 ==
    /\ last.op = "into_value"
    /\ last.x0.unit = _KELVIN
    /\ res.kind = "err"

\* the comparison of two sampled values as integers
IntCompare(op, a, b) ==
    CASE op = "Eq" -> a = b
      [] op = "Ne" -> a # b
      [] op = "Lt" -> a < b
      [] op = "Le" -> a <= b
      [] op = "Gt" -> a > b
      [] op = "Ge" -> a >= b

\* C8: with different units every comparison operator fails (a panic in the
\* core, a raised error in the binding) and yields no boolean; with equal
\* units it yields the comparison of the two values.
Thm_C8 ==
    last.op \in {"compare", "PySIObject.__richcmp__", "SINumber.__richcmp__"} =>
        IF last.x0.unit # last.y.unit
        THEN /\ res.flag = "none"
             /\ res.kind = (IF last.op = "compare" THEN "panic" ELSE "err")
        ELSE /\ res.kind = "ok"
             /\ res.flag = (IF IntCompare(last.cmp, last.x0.value.num,
                                          last.y.value.num)
                            THEN "true" ELSE "false")

Wit_C8 ==
    /\ last.op = "compare"
    /\ last.cmp = "Ne"
    /\ last.x0.unit = _METER
    /\ last.y.unit = _KELVIN
    /\ res.kind = "panic"

(***************************************************************************)
(* Array-valued quantities.  An array quantity is a sequence of values     *)
(* and one unit; the element at the 0-based index idx is value[idx + 1].   *)
(***************************************************************************)
RECURSIVE SeqsOfLen(_, _)
SeqsOfLen(S, n) ==
    IF n = 0 THEN {<<>>}
    ELSE {Append(q, e) : q \in SeqsOfLen(S, n - 1), e \in S}

ArrUnits == {DIMENSIONLESS, _METER, _KELVIN}

Arrays == [value : SeqsOfLen(Vals, ArrLen), unit : ArrUnits]

\* scalars assigned to an element
ArrScalars == [value : Vals, unit : ArrUnits \cup {_NEWTON}]

\* elements of the sequences an array is constructed from
SeqElems == [value : {F64(1), F64(2)}, unit : ArrUnits]

InputSeqs == UNION {SeqsOfLen(SeqElems, n) : n \in 0..MaxSeq}

\* Quantity::len
len(a) == Len(a.value)

\* ndarray: indexing outside the array panics
in_bounds(a, idx) == idx >= 0 /\ idx < len(a)

\* numpy: a negative index counts from the end, anything else outside the
\* array raises IndexError
numpy_index(a, idx) ==
    IF idx >= 0 /\ idx < len(a) THEN idx
    ELSE IF idx < 0 /\ idx >= -len(a) THEN len(a) + idx
    ELSE -1

IndexError == Err("PyIndexError", "", <<>>, <<>>)

\* Quantity::get
get(a, idx) ==
    IF in_bounds(a, idx) THEN OkQuantity(a.value[idx + 1], a.unit)
    ELSE Panic("index", a.unit, <<>>)

\* Quantity::try_set: the result
try_set(a, idx, scalar) ==
    IF has_unit(a, scalar)
    THEN IF in_bounds(a, idx) THEN OkUnit ELSE Panic("index_mut", a.unit, <<>>)
    ELSE UnitError("try_set", a.unit, scalar.unit)

\* try_set that writes the element before it compares the units
try_set_array_early(a, idx, scalar) ==
    IF in_bounds(a, idx) THEN [a EXCEPT !.value[idx + 1] = scalar.value] ELSE a

\* Quantity::try_set: the array afterwards
try_set_array(a, idx, scalar) ==
    IF has_unit(a, scalar) /\ in_bounds(a, idx)
    THEN [a EXCEPT !.value[idx + 1] = scalar.value]
    ELSE a

\* PySIObject::__getitem__
PySIObject_getitem(a, idx) ==
    IF numpy_index(a, idx) = -1 THEN IndexError
    ELSE OkQuantity(a.value[numpy_index(a, idx) + 1], a.unit)

\* PySIObject::__setitem__: the result
PySIObject_setitem(a, idx, scalar) ==
    IF a.unit = scalar.unit
    THEN IF numpy_index(a, idx) = -1 THEN IndexError ELSE OkUnit
    ELSE InconsistentUnits(a.unit, scalar.unit)

\* PySIObject::__setitem__: the array afterwards
PySIObject_setitem_array(a, idx, scalar) ==
    IF a.unit = scalar.unit /\ numpy_index(a, idx) # -1
    THEN [a EXCEPT !.value[numpy_index(a, idx) + 1] = scalar.value]
    ELSE a

\* PySIArray1::__getitem__
PySIArray1_getitem(a, idx) ==
    IF idx < 0 \/ idx >= len(a) THEN IndexError ELSE get(a, idx)

\* PySIArray1::__setitem__: the result
PySIArray1_setitem(a, idx, scalar) ==
    IF idx < 0 \/ idx >= len(a) THEN IndexError ELSE try_set(a, idx, scalar)

\* PySIArray1::__setitem__: the array afterwards
PySIArray1_setitem_array(a, idx, scalar) ==
    IF idx < 0 \/ idx >= len(a) THEN a ELSE try_set_array(a, idx, scalar)

\* the running unit of the constructors: starts as DIMENSIONLESS and is
\* compared with each element's unit unless it is still DIMENSIONLESS
RECURSIVE fold_units(_, _)
fold_units(unit, qs) ==
    IF qs = <<>> THEN [kind |-> "ok", unit |-> unit, found |-> <<>>]
    ELSE IF unit # DIMENSIONLESS /\ unit # Head(qs).unit
         THEN [kind |-> "fail", unit |-> unit, found |-> Head(qs).unit]
         ELSE fold_units(Head(qs).unit, Tail(qs))

RECURSIVE values_of(_)
values_of(qs) ==
    IF qs = <<>> THEN <<>> ELSE <<Head(qs).value>> \o values_of(Tail(qs))

\* Quantity::from_shape_fn (and from_vec, which calls it)
from_shape_fn(qs) ==
    LET f == fold_units(DIMENSIONLESS, qs)
    IN  IF f.kind = "fail" THEN Panic("from_shape_fn", f.unit, f.found)
        ELSE OkArray(values_of(qs), f.unit)

\* impl FromIterator for QuantityArray1: from_iter
from_iter(qs) ==
    LET f == fold_units(DIMENSIONLESS, qs)
    IN  IF f.kind = "fail" THEN Panic("from_iter", f.unit, f.found)
        ELSE OkArray(values_of(qs), f.unit)

\* array1 of the binding, for a list of SINumber
array1(qs) ==
    LET f == fold_units(DIMENSIONLESS, qs)
    IN  IF f.kind = "fail" THEN InconsistentUnits(f.unit, f.found)
        ELSE OkArray(values_of(qs), f.unit)

\* array1 of the binding, for one SINumber
array1_scalar(v) == OkArray(<<f64_mul(F64(1), v.value)>>, v.unit)

(***************************************************************************)
(* Actions on the array-valued quantity arr.                               *)
(***************************************************************************)
CallArr(op) == [NoCall EXCEPT !.op = op, !.arr0 = arr]

\* indices tried by the binding (isize) and by the core (usize)
PyIdx == (-(ArrLen + 1))..ArrLen
CoreIdx == 0..ArrLen

\* arr.get(idx)
Quantity_get ==
    /\ Ready
    /\ \E idx \in CoreIdx :
          /\ res' = get(arr, idx)
          /\ last' = [CallArr("get") EXCEPT !.idx = idx]
    /\ UNCHANGED <<build, x, arr, lazy>>

\* arr.try_set(idx, scalar)
Quantity_try_set ==
    /\ Ready
    /\ \E idx \in CoreIdx, scalar \in ArrScalars :
          /\ res' = try_set(arr, idx, scalar)
          /\ arr' = try_set_array(arr, idx, scalar)
          /\ last' = [CallArr("try_set") EXCEPT !.idx = idx, !.y = scalar]
    /\ UNCHANGED <<build, x, lazy>>

\* PySIObject.__getitem__(arr, idx)
PySIObject___getitem__ ==
    /\ Ready
    /\ \E idx \in PyIdx :
          /\ res' = PySIObject_getitem(arr, idx)
          /\ last' = [CallArr("PySIObject.__getitem__") EXCEPT !.idx = idx]
    /\ UNCHANGED <<build, x, arr, lazy>>

\* PySIObject.__setitem__(arr, idx, scalar)
PySIObject___setitem__ ==
    /\ Ready
    /\ \E idx \in PyIdx, scalar \in ArrScalars :
          /\ res' = PySIObject_setitem(arr, idx, scalar)
          /\ arr' = PySIObject_setitem_array(arr, idx, scalar)
          /\ last' = [CallArr("PySIObject.__setitem__")
                        EXCEPT !.idx = idx, !.y = scalar]
    /\ UNCHANGED <<build, x, lazy>>

\* PySIArray1.__getitem__(arr, idx)
PySIArray1___getitem__ ==
    /\ Ready
    /\ \E idx \in PyIdx :
          /\ res' = PySIArray1_getitem(arr, idx)
          /\ last' = [CallArr("PySIArray1.__getitem__") EXCEPT !.idx = idx]
    /\ UNCHANGED <<build, x, arr, lazy>>

\* PySIArray1.__setitem__(arr, idx, scalar)
PySIArray1___setitem__ ==
    /\ Ready
    /\ \E idx \in PyIdx, scalar \in ArrScalars :
          /\ res' = PySIArray1_setitem(arr, idx, scalar)
          /\ arr' = PySIArray1_setitem_array(arr, idx, scalar)
          /\ last' = [CallArr("PySIArray1.__setitem__")
                        EXCEPT !.idx = idx, !.y = scalar]
    /\ UNCHANGED <<build, x, lazy>>

\* Quantity::from_shape_fn(qs.len(), |i| qs[i])
Quantity_from_shape_fn ==
    /\ Ready
    /\ \E qs \in InputSeqs :
          /\ res' = from_shape_fn(qs)
          /\ last' = [CallArr("from_shape_fn") EXCEPT !.seq = qs]
    /\ UNCHANGED <<build, x, arr, lazy>>

\* qs.into_iter().collect()
Quantity_from_iter ==
    /\ Ready
    /\ \E qs \in InputSeqs :
          /\ res' = from_iter(qs)
          /\ last' = [CallArr("from_iter") EXCEPT !.seq = qs]
    /\ UNCHANGED <<build, x, arr, lazy>>

\* si_units.array1(qs) for a list, si_units.array1(v) for a scalar
PyArray1 ==
    /\ Ready
    /\ \/ \E qs \in InputSeqs :
             /\ res' = array1(qs)
             /\ last' = [CallArr("array1") EXCEPT !.seq = qs]
       \/ \E v \in SeqElems :
             /\ res' = array1_scalar(v)
             /\ last' = [CallArr("array1_scalar") EXCEPT !.y = v]
    /\ UNCHANGED <<build, x, arr, lazy>>

InitArray ==
    /\ build \in Builds
    /\ lazy = LazyInit
    /\ x = [value |-> F64(1), unit |-> _METER]
    /\ arr \in Arrays
    /\ last = NoCall
    /\ res = Idle

NextArray ==
    \/ Quantity_get
    \/ Quantity_try_set
    \/ PySIObject___getitem__
    \/ PySIObject___setitem__
    \/ PySIArray1___getitem__
    \/ PySIArray1___setitem__
    \/ Quantity_from_shape_fn
    \/ Quantity_from_iter
    \/ PyArray1
    \/ Continue

SpecArray == InitArray /\ [][NextArray]_vars

(***************************************************************************)
(* Properties of the array operations.                                     *)
(***************************************************************************)
\* C9: constructing an array from a sequence of scalar quantities fails
\* whenever any two elements have different units, whatever their
\* positions, and otherwise succeeds with the elements' common unit.
CE_C9 ==
    last.op \in {"from_shape_fn", "from_iter", "array1"} =>
        IF \E m, n \in DOMAIN last.seq : last.seq[m].unit # last.seq[n].unit
        THEN res.kind \in {"panic", "err"} /\ res.arrv = <<>>
        ELSE /\ res.kind = "ok"
             /\ Len(res.arrv) = Len(last.seq)
             /\ last.seq # <<>> => res.unit = last.seq[1].unit

SetOps == {"try_set", "PySIObject.__setitem__", "PySIArray1.__setitem__"}
GetOps == {"get", "PySIObject.__getitem__", "PySIArray1.__getitem__"}

\* the indices each interface accepts for an array of n elements
ValidIndex(op, n, idx) ==
    IF op \in {"PySIObject.__getitem__", "PySIObject.__setitem__"}
    THEN idx >= -n /\ idx < n
    ELSE idx >= 0 /\ idx < n

\* the 1-based position of the element a valid index names
Position(n, idx) == IF idx < 0 THEN n + idx + 1 ELSE idx + 1

\* C10: indexed set writes the scalar's value at the index and succeeds iff
\* the scalar's unit equals the array's unit; otherwise it fails with the
\* incompatible-units error and leaves every element and the unit of the
\* array unchanged; indexed get at a valid index returns a scalar quantity
\* with the array's unit.
Thm_C10 ==
    LET a0 == last.arr0
        n == Len(a0.value)
        pos == Position(n, last.idx)
    IN  /\ (last.op \in SetOps /\ ValidIndex(last.op, n, last.idx)) =>
              IF last.y.unit = a0.unit
              THEN /\ res.kind = "ok"
                   /\ arr.unit = a0.unit
                   /\ Len(arr.value) = n
                   /\ arr.value[pos] = last.y.value
                   /\ \A k \in 1..n : k # pos => arr.value[k] = a0.value[k]
              ELSE /\ res.kind = "err"
                   /\ res.err.type \in {"UnitError", "InconsistentUnits"}
                   /\ res.err.u1 = a0.unit /\ res.err.u2 = last.y.unit
                   /\ arr = a0
        /\ (last.op \in SetOps /\ res.kind # "ok") => arr = a0
        /\ (last.op \in GetOps /\ ValidIndex(last.op, n, last.idx)) =>
              /\ res.kind = "ok"
              /\ res.unit = a0.unit
              /\ res.value = a0.value[pos]
              /\ arr = a0

Wit_C10 ==
    /\ last.op = "try_set"
    /\ last.idx = 1
    /\ last.arr0.unit = _METER
    /\ last.y.unit = _NEWTON
    /\ last.y.value # last.arr0.value[2]
    /\ res.kind = "err"
    /\ arr = last.arr0

(***************************************************************************)
(* Identity and inverse of units.                                          *)
(***************************************************************************)
\* a unit whose first component is not negated
SIUnit_recip_slip(a, checks) ==
    I8Outcome([k \in Dim |-> IF k = 1 THEN a[k] ELSE -a[k]], checks)

\* SIUnit::recip
SIUnit_recip(a, checks) == I8Outcome([k \in Dim |-> -a[k]], checks)

\* units at the limits of i8, as from_raw_parts accepts them
UnitI8Min == <<I8_MIN, 0, 0, 0, 0, 0, 0>>
UnitI8Max == <<I8_MAX, I8_MIN + 1, 0, 0, 0, 0, 0>>

RawUnits == SampleUnits \cup {UnitI8Min, UnitI8Max}

RawQuantities == [value : Vals, unit : RawUnits]

\* PySIObject::__rtruediv__ with a bare number on the left
PySIObject_rtruediv(l, p, checks) ==
    LET u == SIUnit_recip(p.unit, checks)
    IN  IF u.kind = "panic" THEN Panic("overflow", p.unit, p.unit)
        ELSE OkQuantity(f64_div(l, p.value), u.unit)

\* impl_mul_op!(Div .., -1): f64 / Quantity
f64_div_quantity(l, p, checks) ==
    LET u == SIUnit_powi(p.unit, -1, checks)
    IN  IF u.kind = "panic" THEN Panic("overflow", p.unit, p.unit)
        ELSE OkQuantity(f64_div(l, p.value), u.unit)

\* x * y with a dimensionless y
Quantity_mul_dimensionless ==
    /\ Ready
    /\ \E v \in Vals :
          LET y == [value |-> v, unit |-> DIMENSIONLESS]
          IN  /\ res' = mul(x, y, overflow_checks)
              /\ last' = [Call("mul_dimensionless") EXCEPT !.y = y]
    /\ UNCHANGED <<build, x, arr, lazy>>

\* x / y with y of the unit of x
Quantity_div_same ==
    /\ Ready
    /\ \E v \in Vals :
          LET y == [value |-> v, unit |-> x.unit]
          IN  /\ res' = div(x, y, overflow_checks)
              /\ last' = [Call("div_same") EXCEPT !.y = y]
    /\ UNCHANGED <<build, x, arr, lazy>>

\* l / x through the binding
PySIObject___rtruediv__ ==
    /\ Ready
    /\ \E l \in Vals :
          /\ res' = PySIObject_rtruediv(l, x, overflow_checks)
          /\ last' = [Call("rtruediv") EXCEPT !.y = [value |-> l, unit |-> DIMENSIONLESS]]
    /\ UNCHANGED <<build, x, arr, lazy>>

\* l / x in the core crate
Quantity_f64_div ==
    /\ Ready
    /\ \E l \in Vals :
          /\ res' = f64_div_quantity(l, x, overflow_checks)
          /\ last' = [Call("f64_div") EXCEPT !.y = [value |-> l, unit |-> DIMENSIONLESS]]
    /\ UNCHANGED <<build, x, arr, lazy>>

\* x * (l / x): the product with the inverse that was just returned
Quantity_mul_recip ==
    /\ last.op \in {"rtruediv", "f64_div"}
    /\ res.kind = "ok"
    /\ res' = mul(x, [value |-> res.value, unit |-> res.unit], overflow_checks)
    /\ last' = [last EXCEPT !.op = "mul_recip"]
    /\ UNCHANGED <<build, x, arr, lazy>>

InitUnit ==
    /\ build \in Builds
    /\ lazy = LazyInit
    /\ x \in RawQuantities
    /\ arr = _ARRAY0
    /\ last = NoCall
    /\ res = Idle

NextUnit ==
    \/ Quantity_mul_dimensionless
    \/ Quantity_div_same
    \/ PySIObject___rtruediv__
    \/ Quantity_f64_div
    \/ Quantity_mul_recip
    \/ Continue

SpecUnit == InitUnit /\ [][NextUnit]_vars

\* the identity and inverse laws for the call that has just returned
IdentityLaws ==
    /\ last.op = "mul_dimensionless" =>
          res.kind = "ok" /\ res.unit = last.x0.unit
    /\ last.op = "div_same" =>
          res.kind = "ok" /\ res.unit = DIMENSIONLESS
    /\ last.op \in {"rtruediv", "f64_div"} =>
          /\ res.kind = "ok"
          /\ \A k \in Dim : res.unit[k] = -last.x0.unit[k]
    /\ last.op = "mul_recip" =>
          res.kind = "ok" /\ res.unit = DIMENSIONLESS

\* C11 (as stated): for every unit a, a * DIMENSIONLESS = a,
\* a / a = DIMENSIONLESS, the inverse of a has the negated components of a,
\* and a * inverse(a) = DIMENSIONLESS.
CE_C11 == IdentityLaws

\* C11 (amended): the identity and inverse laws hold for every unit none of
\* whose components is i8::MIN; the negation of i8::MIN does not fit in i8.
Thm_C11 ==
    (last.op # "none" /\ \A k \in Dim : last.x0.unit[k] # I8_MIN) => IdentityLaws

Wit_C11 ==
    /\ last.op = "mul_recip"
    /\ last.x0.unit = UnitI8Max
    /\ res.kind = "ok"
    /\ res.unit = DIMENSIONLESS

(***************************************************************************)
(* f64 addition and subtraction, bit for bit.  A number is kept as sign    *)
(* and magnitude, the magnitude as three limbs counting units of 2^-56:    *)
(* h the integer part, m and l the upper and lower 28 bits of the          *)
(* fraction.  Every f64 between 2^-4 and 2^11 in magnitude and the         *)
(* multiples of 2^-56 below 2^-4 are of this form.                         *)
(***************************************************************************)
\* 2^28, the base of the limbs
LimbBase == 268435456

Fx(neg, h, m, l) == [neg |-> neg, h |-> h, m |-> m, l |-> l]

FxZero == Fx(FALSE, 0, 0, 0)

FxIsZero(a) == a.h = 0 /\ a.m = 0 /\ a.l = 0

\* carries propagated from the low limb upwards (also for negative limbs)
FxCarry(neg, h, m, l) ==
    LET m1 == m + (l \div LimbBase)
    IN  Fx(neg, h + (m1 \div LimbBase), m1 % LimbBase, l % LimbBase)

\* |a| < |b|
FxMagLess(a, b) ==
    \/ a.h < b.h
    \/ a.h = b.h /\ a.m < b.m
    \/ a.h = b.h /\ a.m = b.m /\ a.l < b.l

RECURSIVE FloorLog2(_)
FloorLog2(n) == IF n <= 1 THEN 0 ELSE 1 + FloorLog2(n \div 2)

RECURSIVE Pow2(_)
Pow2(e) == IF e <= 0 THEN 1 ELSE 2 * Pow2(e - 1)

\* the distance of neighbouring f64 values at the magnitude of a, in units
\* of 2^-56: a 53-bit significand
FxUlp(a) ==
    IF a.h >= 1 THEN Pow2(FloorLog2(a.h) + 4)
    ELSE IF a.m >= Pow2(24) THEN Pow2(FloorLog2(a.m) - 24)
    ELSE 1

\* round to nearest, ties to even
FxRound(a) ==
    LET U == FxUlp(a)
        q == a.l \div U
        r == a.l % U
        up == (2 * r > U) \/ (2 * r = U /\ q % 2 = 1)
        r0 == FxCarry(a.neg, a.h, a.m, (IF up THEN q + 1 ELSE q) * U)
    IN  IF FxIsZero(r0) THEN FxZero ELSE r0

\* the exact sum of two numbers
FxExactAdd(a, b) ==
    IF a.neg = b.neg
    THEN FxCarry(a.neg, a.h + b.h, a.m + b.m, a.l + b.l)
    ELSE IF FxMagLess(a, b)
    THEN FxCarry(b.neg, b.h - a.h, b.m - a.m, b.l - a.l)
    ELSE FxCarry(a.neg, a.h - b.h, a.m - b.m, a.l - b.l)

FxNeg(a) == IF FxIsZero(a) THEN a ELSE [a EXCEPT !.neg = ~a.neg]

\* a + b and a - b in f64
f64x_add(a, b) == FxRound(FxExactAdd(a, b))

f64x_sub(a, b) == FxRound(FxExactAdd(a, FxNeg(b)))

\* the f64 literal 273.15 = 0x1.1126666666666p+8
DELTA_273_15 == Fx(FALSE, 273, 40265318, 107372544)

\* f64 numbers: 0, 0.5, 1, 2, 25, -25, 100, 1000, -300, 0.1, 2^-50
\* and the temperatures 273.15 (with sign), 298.15, 373.15
FxSamples ==
    {FxZero, Fx(FALSE, 0, 134217728, 0), Fx(FALSE, 1, 0, 0), Fx(FALSE, 2, 0, 0),
     Fx(FALSE, 25, 0, 0), Fx(TRUE, 25, 0, 0), Fx(FALSE, 100, 0, 0),
     Fx(FALSE, 1000, 0, 0), Fx(TRUE, 300, 0, 0),
     Fx(FALSE, 0, 26843545, 161061274), Fx(FALSE, 0, 0, 64),
     DELTA_273_15, FxNeg(DELTA_273_15),
     Fx(FALSE, 298, 40265318, 107372544), Fx(FALSE, 373, 40265318, 107372544)}

(***************************************************************************)
(* Celsius.                                                                *)
(***************************************************************************)
\* a product that subtracts the offset instead of adding it
Celsius_rmul_slip(lhs) == OkQuantity(f64x_sub(lhs, DELTA_273_15), _KELVIN)

\* Celsius::__rmul__ and impl Mul<CELSIUS> for f64: lhs * CELSIUS
Celsius_rmul(lhs) == OkQuantity(f64x_add(lhs, DELTA_273_15), _KELVIN)

\* a call into the Python object that holds the value
PyCall(method, a, b) == [fn |-> method, a |-> a, b |-> b]

\* PySIObject::new_unit_checked
new_unit_checked(v, u) ==
    IF is_dimensionless(u) THEN OkValue(v) ELSE OkQuantity(v, u)

\* PySIObject::__truediv__; rhs is an SIObject, CELSIUS or another object
PySIObject_truediv(p, kind, rhs, checks) ==
    IF kind = "siobject"
    THEN LET u == SIUnit_div(p.unit, rhs.unit, checks)
         IN  IF u.kind = "panic" THEN Panic("overflow", p.unit, rhs.unit)
             ELSE new_unit_checked(PyCall("__truediv__", p.value, rhs.value), u.unit)
    ELSE IF kind = "celsius"
    THEN IF p.unit = _KELVIN
         THEN OkValue(f64x_sub(p.value, DELTA_273_15))
         ELSE InconsistentUnits(p.unit, _KELVIN)
    ELSE new_unit_checked(PyCall("__truediv__", p.value, rhs.value), p.unit)

RhsKinds == {"siobject", "celsius", "number"}

CelsiusUnits == {_KELVIN, _METER, DIMENSIONLESS}

CelsiusQuantities == [value : FxSamples, unit : CelsiusUnits]

\* t * CELSIUS through the binding
Celsius___rmul__ ==
    /\ Ready
    /\ \E t \in FxSamples :
          /\ res' = Celsius_rmul(t)
          /\ last' = [Call("celsius_rmul") EXCEPT !.y = [value |-> t, unit |-> DIMENSIONLESS]]
    /\ UNCHANGED <<build, x, arr, lazy>>

\* t * CELSIUS in the core crate
f64_mul_CELSIUS ==
    /\ Ready
    /\ \E t \in FxSamples :
          /\ res' = Celsius_rmul(t)
          /\ last' = [Call("celsius_mul") EXCEPT !.y = [value |-> t, unit |-> DIMENSIONLESS]]
    /\ UNCHANGED <<build, x, arr, lazy>>

\* x / rhs through the binding
PySIObject___truediv__ ==
    /\ Ready
    /\ \E kind \in RhsKinds :
          \E rhs \in IF kind = "siobject" THEN CelsiusQuantities
                     ELSE IF kind = "number"
                     THEN [value : FxSamples, unit : {DIMENSIONLESS}]
                     ELSE {NoQuantity} :
             /\ res' = PySIObject_truediv(x, kind, rhs, overflow_checks)
             /\ last' = [Call("truediv") EXCEPT !.cmp = kind, !.y = rhs]
    /\ UNCHANGED <<build, x, arr, lazy>>

\* (t * CELSIUS) / CELSIUS: the quantity just returned, divided by CELSIUS
Celsius_roundtrip ==
    /\ last.op = "celsius_rmul"
    /\ res.kind = "ok"
    /\ res' = PySIObject_truediv([value |-> res.value, unit |-> res.unit],
                                 "celsius", NoQuantity, overflow_checks)
    /\ last' = [last EXCEPT !.op = "celsius_roundtrip"]
    /\ UNCHANGED <<build, x, arr, lazy>>

InitCelsius ==
    /\ build \in Builds
    /\ lazy = LazyInit
    /\ x \in CelsiusQuantities
    /\ arr = _ARRAY0
    /\ last = NoCall
    /\ res = Idle

NextCelsius ==
    \/ Celsius___rmul__
    \/ f64_mul_CELSIUS
    \/ PySIObject___truediv__
    \/ Celsius_roundtrip
    \/ Continue

SpecCelsius == InitCelsius /\ [][NextCelsius]_vars

\* r is an f64 and no f64 is nearer to the exact number e
FxIsNearest(r, e) ==
    LET d == FxExactAdd(r, FxNeg(e))
    IN  /\ FxRound(r) = r
        /\ d.h = 0 /\ d.m = 0 /\ 2 * d.l <= FxUlp(e)

\* the conversions to and from Celsius, without the round trip
CelsiusConversions ==
    /\ last.op \in {"celsius_rmul", "celsius_mul"} =>
          /\ res.kind = "ok"
          /\ res.unit = _KELVIN
          /\ FxIsNearest(res.value, FxExactAdd(last.y.value, DELTA_273_15))
    /\ (last.op = "truediv" /\ last.cmp = "celsius") =>
          IF last.x0.unit = _KELVIN
          THEN /\ res.kind = "ok"
               /\ res.unit = <<>>
               /\ FxIsNearest(res.value,
                              FxExactAdd(last.x0.value, FxNeg(DELTA_273_15)))
          ELSE /\ res.kind = "err"
               /\ res.err.type = "InconsistentUnits"
               /\ res.value = NoValue

\* C12 (as stated): t * CELSIUS is the kelvin quantity of value t + 273.15,
\* a kelvin quantity of value v divided by CELSIUS is the number v - 273.15,
\* (t * CELSIUS) / CELSIUS is t for every number t, and a quantity of
\* another unit divided by CELSIUS fails with the inconsistent-units error.
CE_C12 ==
    /\ CelsiusConversions
    /\ last.op = "celsius_roundtrip" =>
          res.kind = "ok" /\ res.unit = <<>> /\ res.value = last.y.value

\* C12 (amended): as above, with sum and difference rounded to f64, and
\* (t * CELSIUS) / CELSIUS is t whenever t + 273.15 is itself an f64.
Thm_C12 ==
    /\ CelsiusConversions
    /\ last.op = "celsius_roundtrip" =>
          /\ res.kind = "ok" /\ res.unit = <<>>
          /\ LET s == FxExactAdd(last.y.value, DELTA_273_15)
             IN  FxRound(s) = s => res.value = last.y.value

Wit_C12 ==
    /\ last.op = "celsius_roundtrip"
    /\ last.y.value = Fx(FALSE, 25, 0, 0)
    /\ res.value = Fx(FALSE, 25, 0, 0)

(***************************************************************************)
(* Debye.                                                                  *)
(***************************************************************************)
\* i32 `%` and `/` truncate towards zero
i32_rem(a, b) ==
    LET m == IF b < 0 THEN -b ELSE b
        r == a % m
    IN IF a < 0 /\ r # 0 THEN r - m ELSE r

i32_div(a, b) ==
    IF b < 0 THEN -((a - i32_rem(a, b)) \div (-b))
    ELSE (a - i32_rem(a, b)) \div b

_JOULE == <<2, 1, -2, 0, 0, 0, 0>>

\* QuantityError::DebyePower
DebyePower == Err("DebyePower", "pow", <<>>, <<>>)

\* Debye::__pow__; d is the number of Debye
Debye_pow(d, n, checks) ==
    IF i32_rem(n, 2) = 1
    THEN DebyePower
    ELSE LET m3 == SIUnit_powi(_METER, 3, checks)
             jm3 == IF m3.kind = "panic" THEN m3
                    ELSE SIUnit_mul(_JOULE, m3.unit, checks)
             unit == IF jm3.kind = "panic" THEN jm3
                     ELSE SIUnit_powi(jm3.unit, i32_div(n, 2), checks)
         IN  IF unit.kind = "panic" THEN Panic("overflow", <<>>, <<>>)
             ELSE OkQuantity(f64_apply("debye_powi", d, i32_div(n, 2)), unit.unit)

\* Debye::__rmul__ with a number on the left: a new Debye
Debye_rmul(l, d) == OkValue(f64_mul(l, d))

\* the Debye values of the runs: x.value is the number of Debye
Debyes == [value : Vals, unit : {<<>>}]

\* x ** n
Debye___pow__ ==
    /\ Ready
    /\ \E n \in Indices :
          /\ res' = Debye_pow(x.value, n, overflow_checks)
          /\ last' = [Call("debye_pow") EXCEPT !.i = n]
    /\ UNCHANGED <<build, x, arr, lazy>>

\* l * x
Debye___rmul__ ==
    /\ Ready
    /\ \E l \in Vals :
          /\ res' = Debye_rmul(l, x.value)
          /\ last' = [Call("debye_rmul") EXCEPT !.y = [value |-> l, unit |-> DIMENSIONLESS]]
    /\ UNCHANGED <<build, x, arr, lazy>>

InitDebye ==
    /\ build \in Builds
    /\ lazy = LazyInit
    /\ x \in Debyes
    /\ arr = _ARRAY0
    /\ last = NoCall
    /\ res = Idle

NextDebye ==
    \/ Debye___pow__
    \/ Debye___rmul__
    \/ Continue

SpecDebye == InitDebye /\ [][NextDebye]_vars

\* C13: raising a Debye value to an odd integer power, positive or
\* negative, fails with the Debye error; only an even power gives a
\* quantity.
CE_C13 ==
    last.op = "debye_pow" =>
        /\ last.i % 2 = 1 => (res.kind = "err" /\ res.err.type = "DebyePower")
        /\ res.kind = "ok" => last.i % 2 = 0

(***************************************************************************)
(* The units named by the failures of unit checks.                         *)
(***************************************************************************)
\* f64::max and f64::min: a NaN operand is ignored
f64_max(a, b) ==
    IF is_nan(a) THEN b ELSE IF is_nan(b) THEN a
    ELSE IF f64_lt(a, b) THEN b ELSE a

f64_min(a, b) ==
    IF is_nan(a) THEN b ELSE IF is_nan(b) THEN a
    ELSE IF f64_lt(b, a) THEN b ELSE a

\* Quantity::max
max(p, q) ==
    IF p.unit = q.unit
    THEN OkQuantity(f64_max(p.value, q.value), p.unit)
    ELSE UnitError("max", p.unit, q.unit)

\* Quantity::min
min(p, q) ==
    IF p.unit = q.unit
    THEN OkQuantity(f64_min(p.value, q.value), p.unit)
    ELSE UnitError("min", p.unit, q.unit)

\* x.max(y)
Quantity_max ==
    /\ Ready
    /\ \E y \in Quantities :
          /\ res' = max(x, y)
          /\ last' = [Call("max") EXCEPT !.y = y]
    /\ UNCHANGED <<build, x, arr, lazy>>

\* x.min(y)
Quantity_min ==
    /\ Ready
    /\ \E y \in Quantities :
          /\ res' = min(x, y)
          /\ last' = [Call("min") EXCEPT !.y = y]
    /\ UNCHANGED <<build, x, arr, lazy>>

\* any sampled scalar, and an array of one length in METER
_ARRAY1 == [value |-> <<F64(0)>>, unit |-> _METER]

InitChecked ==
    /\ build \in Builds
    /\ lazy = LazyInit
    /\ x \in Quantities
    /\ arr = _ARRAY1
    /\ last = NoCall
    /\ res = Idle

\* the operations that compare the units of two operands
NextChecked ==
    \/ Quantity_add
    \/ Quantity_sub
    \/ Quantity_add_assign
    \/ Quantity_sub_assign
    \/ Quantity_compare
    \/ PySIObject___richcmp__
    \/ SINumber___richcmp__
    \/ Quantity_to_reduced
    \/ Quantity_max
    \/ Quantity_min
    \/ Quantity_try_set
    \/ PySIObject___setitem__
    \/ PySIArray1___setitem__
    \/ Quantity_from_shape_fn
    \/ Quantity_from_iter
    \/ PyArray1
    \/ Continue

SpecChecked == InitChecked /\ [][NextChecked]_vars

BinaryCheckedOps ==
    {"add", "sub", "add_assign", "sub_assign", "compare",
     "PySIObject.__richcmp__", "SINumber.__richcmp__", "to_reduced",
     "max", "min"}

IndexedSetOps == {"try_set", "PySIObject.__setitem__", "PySIArray1.__setitem__"}

ConstructionOps == {"from_shape_fn", "from_iter", "array1"}

Failed == res.kind \in {"err", "panic"}

\* the error or panic names exactly the units u and v
Names(u, v) == {res.err.u1, res.err.u2} = {u, v}

\* C14: every failure caused by two differing units (add/sub, comparison,
\* indexed set, array construction, max/min, to_reduced) names both of the
\* differing units in its error or panic message.
CE_C14 ==
    /\ (last.op \in BinaryCheckedOps /\ Failed /\ last.x0.unit # last.y.unit) =>
          Names(last.x0.unit, last.y.unit)
    /\ (last.op \in IndexedSetOps /\ Failed /\ last.arr0.unit # last.y.unit
          /\ res.err.type # "PyIndexError") =>
          Names(last.arr0.unit, last.y.unit)
    /\ (last.op \in ConstructionOps /\ Failed) =>
          /\ res.err.u1 # res.err.u2
          /\ \E m, n \in DOMAIN last.seq :
                Names(last.seq[m].unit, last.seq[n].unit)

(***************************************************************************)
(* Quantities with the unit in the type, and their way across the binding. *)
(***************************************************************************)
_AMPERE == <<0, 0, 0, 1, 0, 0, 0>>
_MOL == <<0, 0, 0, 0, 1, 0, 0>>
_CANDELA == <<0, 0, 0, 0, 0, 0, 1>>

\* UNIT_SYMBOLS of the formatter
UNIT_SYMBOLS == <<"m", "kg", "s", "A", "mol", "K", "cd">>

\* SIUnit<T, L, M, I, THETA, N, J>: the exponents as type parameters
TypedUnit(T, L, M, I, THETA, N, J) ==
    [T |-> T, L |-> L, M |-> M, I |-> I, THETA |-> THETA, N |-> N, J |-> J]

TypedUnits ==
    {TypedUnit(0, 0, 0, 0, 0, 0, 0), TypedUnit(1, 0, 0, 0, 0, 0, 0),
     TypedUnit(0, 1, 0, 0, 0, 0, 0), TypedUnit(0, 0, 1, 0, 0, 0, 0),
     TypedUnit(0, 0, 0, 1, 0, 0, 0), TypedUnit(0, 0, 0, 0, 1, 0, 0),
     TypedUnit(0, 0, 0, 0, 0, 1, 0), TypedUnit(0, 0, 0, 0, 0, 0, 1),
     TypedUnit(-2, 2, 1, 0, -1, -1, 0)}

TypedQuantities == [value : Vals, unit : TypedUnits]

\* a vector with temperature and amount of substance exchanged
unit_into_swapped(U) == <<U.L, U.M, U.T, U.I, U.THETA, U.N, U.J>>

\* [L::I8, M::I8, T::I8, I::I8, N::I8, THETA::I8, J::I8]
unit_into(U) == <<U.L, U.M, U.T, U.I, U.N, U.THETA, U.J>>

\* a Python object as the binding sees it: whether __getnewargs__ can be
\* called, the tuple it returns, and whether __repr__ returns
PyObject(cls, newargs, args, repr) ==
    [cls |-> cls, newargs |-> newargs, args |-> args, repr |-> repr]

\* an argument of the tuple: a number, or something that is not a number
PyFloat(v) == [kind |-> "float", v |-> v]
PyOther == [kind |-> "other", v |-> NoValue]
PyUnit(u) == [kind |-> "list", v |-> u]

\* PySIObject::py_new; __getnewargs__ returns (value, unit.0)
py_new(v, u) == PyObject("SIObject", TRUE, <<v, PyUnit(u)>>, TRUE)

\* a bare float: __getnewargs__ returns (value,)
py_float(v) == PyObject("float", TRUE, <<PyFloat(v)>>, TRUE)

\* a returned Python object
OkPyObject(ob) == [Idle EXCEPT !.kind = "ok", !.flag = ob.cls, !.arrv = ob.args]

\* IntoPyObject::into_pyobject for Quantity<f64, SIUnit<..>>
into_pyobject(q) == OkPyObject(py_new(PyFloat(q.value), unit_into(q.unit)))


\* raw.extract::<(f64, [i8; 7])>() succeeds
extracts_pair(ob) ==
    /\ ob.newargs
    /\ Len(ob.args) = 2
    /\ ob.args[1].kind = "float"
    /\ ob.args[2].kind = "list"
    /\ Len(ob.args[2].v) = 7
    /\ \A k \in Dim : fits_i8(ob.args[2].v[k])

\* the error of extract_bound; building its message calls __repr__, whose
\* exception is raised instead if it fails
extract_error(ob, message) ==
    IF ob.repr THEN Err("PyValueError", message, <<>>, <<>>)
    ELSE Err("PyErr", "__repr__", <<>>, <<>>)

\* an import that does not compare the units
extract_bound_unchecked(ob, U) ==
    IF ~extracts_pair(ob) THEN extract_error(ob, "Missing units!")
    ELSE OkQuantity(ob.args[1].v, U)

\* FromPyObject::extract_bound for Quantity<f64, SIUnit<..>>
extract_bound(ob, U) ==
    IF ~extracts_pair(ob) THEN extract_error(ob, "Missing units!")
    ELSE IF unit_into(U) = ob.args[2].v THEN OkQuantity(ob.args[1].v, U)
    ELSE extract_error(ob, "Wrong units!")

\* vectors received from the foreign side
PyUnitSamples ==
    {unit_into(U) : U \in TypedUnits} \cup {<<2, 1, -2, 0, 0, -1, 0>>}

PyObjects ==
    {py_new(PyFloat(v), u) : v \in Vals, u \in PyUnitSamples}
    \cup {py_new(PyOther, _METER), py_new(PyFloat(F64(1)), <<1, 0, 0>>),
          py_new(PyFloat(F64(1)), <<200, 0, 0, 0, 0, 0, 0>>)}
    \cup {py_float(v) : v \in Vals}
    \cup {PyObject("str", FALSE, <<>>, TRUE), PyObject("object", FALSE, <<>>, FALSE),
          PyObject("tuple", TRUE, <<>>, TRUE)}

\* x.into_pyobject()
Quantity_into_pyobject ==
    /\ Ready
    /\ res' = into_pyobject(x)
    /\ last' = Call("into_pyobject")
    /\ UNCHANGED <<build, x, arr, lazy>>

\* ob.extract::<Quantity<f64, U>>()
Quantity_extract_bound ==
    /\ Ready
    /\ \E ob \in PyObjects, U \in TypedUnits :
          /\ res' = extract_bound(ob, U)
          /\ last' = [Call("extract_bound") EXCEPT !.y = ob, !.seq = <<U>>]
    /\ UNCHANGED <<build, x, arr, lazy>>

\* the object that into_pyobject just returned, imported as a Quantity of
\* unit U
Quantity_export_import ==
    /\ last.op = "into_pyobject"
    /\ res.kind = "ok"
    /\ \E U \in TypedUnits :
          /\ res' = extract_bound(PyObject(res.flag, TRUE, res.arrv, TRUE), U)
          /\ last' = [last EXCEPT !.op = "export_import", !.seq = <<U>>]
    /\ UNCHANGED <<build, x, arr, lazy>>

InitPy ==
    /\ build \in Builds
    /\ lazy = LazyInit
    /\ x \in TypedQuantities
    /\ arr = _ARRAY0
    /\ last = NoCall
    /\ res = Idle

NextPy ==
    \/ Quantity_into_pyobject
    \/ Quantity_extract_bound
    \/ Quantity_export_import
    \/ Continue

SpecPy == InitPy /\ [][NextPy]_vars


\* the SI base unit, its symbol and its type parameter for each dimension
BaseUnitOf ==
    [length |-> _METER, mass |-> _KILOGRAM, time |-> _SECOND,
     current |-> _AMPERE, temperature |-> _KELVIN, amount |-> _MOL,
     luminous_intensity |-> _CANDELA]

SymbolOf ==
    [length |-> "m", mass |-> "kg", time |-> "s", current |-> "A",
     temperature |-> "K", amount |-> "mol", luminous_intensity |-> "cd"]

TypedExponent(U) ==
    [length |-> U.L, mass |-> U.M, time |-> U.T, current |-> U.I,
     temperature |-> U.THETA, amount |-> U.N, luminous_intensity |-> U.J]

\* the base-unit constants, the symbol list of the formatter and the
\* vector that into_pyobject hands over all follow the given order
OrderHolds(order) ==
    /\ \A k, j \in Dim : BaseUnitOf[order[k]][j] = IF j = k THEN 1 ELSE 0
    /\ \A k \in Dim : UNIT_SYMBOLS[k] = SymbolOf[order[k]]
    /\ last.op = "into_pyobject" =>
          /\ res.kind = "ok"
          /\ \A k \in Dim :
                res.arrv[2].v[k] = TypedExponent(last.x0.unit)[order[k]]

VectorEquals(v, U) ==
    /\ v[1] = U.L /\ v[2] = U.M /\ v[3] = U.T /\ v[4] = U.I
    /\ v[5] = U.N /\ v[6] = U.THETA /\ v[7] = U.J

ImportFails ==
    /\ res.kind = "err"
    /\ res.err.type \in {"PyValueError", "PyErr"}
    /\ res.value = NoValue
    /\ res.unit = <<>>

\* C16: an import with expected unit U succeeds iff the object supplies a
\* pair (value, [i8; 7]) whose vector is that of U, and then gives the
\* value; otherwise a binding-level error is raised and no Quantity is
\* made; exporting a quantity and importing it with its own unit gives the
\* same value.
Thm_C16 ==
    /\ last.op = "extract_bound" =>
          LET ob == last.y
              U == last.seq[1]
          IN  IF extracts_pair(ob) /\ VectorEquals(ob.args[2].v, U)
              THEN /\ res.kind = "ok"
                   /\ res.value = ob.args[1].v
                   /\ res.unit = U
              ELSE ImportFails
    /\ last.op = "export_import" =>
          IF last.seq[1] = last.x0.unit
          THEN /\ res.kind = "ok"
               /\ res.value = last.x0.value
               /\ res.unit = last.x0.unit
          ELSE ImportFails

Wit_C16 ==
    /\ last.op = "export_import"
    /\ last.x0.unit = TypedUnit(-2, 2, 1, 0, -1, -1, 0)
    /\ last.seq[1] = last.x0.unit
    /\ res.kind = "ok"
    /\ res.value = F64(2)


(***************************************************************************)
(* Formatter: f64 values as the formatter sees them.  Each finite value is *)
(* named by the shortest decimal digits that identify it (what the float   *)
(* formatting of core::fmt decodes): the value is                          *)
(*   (-1)^neg * d1.d2d3... * 10^exp,   digits = <<d1, d2, ...>>,           *)
(* without leading or trailing zero digits; zero has no digits.            *)
(***************************************************************************)
Dec(neg, digits, exp) ==
    [neg |-> neg, digits |-> digits, exp |-> exp, nan |-> FALSE, inf |-> FALSE]

f64_NAN ==
    [neg |-> FALSE, digits |-> <<>>, exp |-> 0, nan |-> TRUE, inf |-> FALSE]

f64_INFINITY ==
    [neg |-> FALSE, digits |-> <<>>, exp |-> 0, nan |-> FALSE, inf |-> TRUE]

f64_NEG_INFINITY == [f64_INFINITY EXCEPT !.neg = TRUE]

f64_ZERO == Dec(FALSE, <<>>, 0)

f64_ONE == Dec(FALSE, <<1>>, 0)

\* metric prefixes used by the formatter
PICO == Dec(FALSE, <<1>>, -12)

KILO == Dec(FALSE, <<1>>, 3)

MEGA == Dec(FALSE, <<1>>, 6)

PETA == Dec(FALSE, <<1>>, 15)

\* bounds of the range in which Display prints without exponent
PLAIN_LOW == Dec(FALSE, <<1>>, -2)

PLAIN_HIGH == Dec(FALSE, <<1>>, 4)

\* Option<f64>
None == [some |-> FALSE, v |-> f64_NAN]

Some(v) == [some |-> TRUE, v |-> v]

\* a slip: no value is taken for NaN
Dec_is_nan_never(v) == FALSE

\* f64::is_nan
Dec_is_nan(v) == v.nan

\* f64::abs
Dec_abs(v) == [v EXCEPT !.neg = FALSE]

\* value == 0.0
Dec_is_zero(v) == ~v.nan /\ ~v.inf /\ v.digits = <<>>

\* digit strings compared as fractions 0.d1d2d3...
RECURSIVE DigitsLess(_, _)
DigitsLess(a, b) ==
    IF b = <<>> THEN FALSE
    ELSE IF a = <<>> THEN TRUE
    ELSE IF Head(a) # Head(b) THEN Head(a) < Head(b)
    ELSE DigitsLess(Tail(a), Tail(b))

\* a < b for two values that are not negative (false when one is NaN)
Dec_lt(a, b) ==
    /\ ~a.nan
    /\ ~b.nan
    /\ ~a.inf
    /\ ~Dec_is_zero(b)
    /\ \/ b.inf
       \/ Dec_is_zero(a)
       \/ a.exp < b.exp
       \/ a.exp = b.exp /\ DigitsLess(a.digits, b.digits)

\* (lo..hi).contains(&v): lo <= v && v < hi
Range_contains(lo, hi, v) == ~v.nan /\ ~Dec_lt(v, lo) /\ Dec_lt(v, hi)

\* the value lies so closely below a power of ten that its logarithm is
\* within one rounding step of an integer
NearPowerOfTen(v) ==
    /\ Len(v.digits) >= 16
    /\ \A k \in 1..15 : v.digits[k] = 9

\* abs_value.log10().floor() for abs_value > 0: the results an f64 log10
\* can give; its last digit is not specified, so next to a power of ten
\* the integer above the exact logarithm is possible
f64_log10_floor(v) ==
    IF NearPowerOfTen(v) THEN {v.exp, v.exp + 1} ELSE {v.exp}

\* `as i8` applied to a float: saturating
f64_as_i8(n) == IF n > I8_MAX THEN I8_MAX ELSE IF n < I8_MIN THEN I8_MIN ELSE n

\* quotients v / 10^k whose f64 rounding changes the decimal digits
InexactQuotients ==
    { [v |-> Dec(FALSE, <<2, 5>>, -5), k |-> -6,
       q |-> Dec(FALSE, <<2, 5, 0, 0, 0, 0, 0, 0, 0, 0, 0, 0, 0, 0, 0, 0, 4>>, 1)],
      [v |-> Dec(FALSE, <<5>>, -10), k |-> -12,
       q |-> Dec(FALSE, <<5, 0, 0, 0, 0, 0, 0, 0, 0, 0, 0, 0, 0, 0, 0, 0, 6>>, 2)] }

\* v / 10.0f64.powi(k)
Dec_div_pow10(v, k) ==
    IF v.nan \/ v.inf \/ Dec_is_zero(v) THEN v
    ELSE IF \E r \in InexactQuotients : r.v = Dec_abs(v) /\ r.k = k
    THEN LET r == CHOOSE r \in InexactQuotients : r.v = Dec_abs(v) /\ r.k = k
         IN  [r.q EXCEPT !.neg = v.neg]
    ELSE [v EXCEPT !.exp = v.exp - k]

\* b is a power of ten
IsPow10(b) == ~b.nan /\ ~b.neg /\ b.digits = <<1>>

\* a / b for a divisor that is a power of ten
Dec_div(a, b) == CASE IsPow10(b) -> Dec_div_pow10(a, b.exp)

\* a * b where one factor is 1.0
Dec_mul(a, b) == CASE a = f64_ONE -> b [] b = f64_ONE -> a

DigitChar == <<"0", "1", "2", "3", "4", "5", "6", "7", "8", "9">>

RECURSIVE DigitsStr(_)
DigitsStr(ds) ==
    IF ds = <<>> THEN "" ELSE DigitChar[Head(ds) + 1] \o DigitsStr(Tail(ds))

RECURSIVE Zeros(_)
Zeros(n) == IF n <= 0 THEN "" ELSE "0" \o Zeros(n - 1)

RECURSIVE NatStr(_)
NatStr(n) ==
    IF n < 10 THEN DigitChar[n + 1]
    ELSE NatStr(n \div 10) \o DigitChar[(n % 10) + 1]

\* Display of an integer (i8 exponents, decimal exponents)
IntStr(n) == IF n < 0 THEN "-" \o NatStr(-n) ELSE NatStr(n)

\* `{}` of an f64: shortest digits, never an exponent
f64_Display(v) ==
    IF v.nan THEN "NaN"
    ELSE IF v.inf THEN (IF v.neg THEN "-inf" ELSE "inf")
    ELSE LET n == Len(v.digits)
             body ==
                 IF n = 0 THEN "0"
                 ELSE IF v.exp < 0
                 THEN "0." \o Zeros(-v.exp - 1) \o DigitsStr(v.digits)
                 ELSE IF v.exp + 1 >= n
                 THEN DigitsStr(v.digits) \o Zeros(v.exp + 1 - n)
                 ELSE DigitsStr(SubSeq(v.digits, 1, v.exp + 1)) \o "."
                      \o DigitsStr(SubSeq(v.digits, v.exp + 2, n))
         IN  (IF v.neg THEN "-" ELSE "") \o body

\* `{:e}` / `{:E}` of an f64: one digit, the other digits as fraction, the
\* exponent letter and the decimal exponent
f64_Exp(v, letter) ==
    IF v.nan THEN "NaN"
    ELSE IF v.inf THEN (IF v.neg THEN "-inf" ELSE "inf")
    ELSE LET n == Len(v.digits)
             mant ==
                 IF n = 0 THEN "0"
                 ELSE IF n = 1 THEN DigitsStr(v.digits)
                 ELSE DigitChar[v.digits[1] + 1] \o "."
                      \o DigitsStr(SubSeq(v.digits, 2, n))
         IN  (IF v.neg THEN "-" ELSE "") \o mant \o letter \o IntStr(v.exp)

f64_LowerExp(v) == f64_Exp(v, "e")

f64_UpperExp(v) == f64_Exp(v, "E")


(***************************************************************************)
(* Formatter of the si-units binding: the registry of derived units, the   *)
(* table of metric prefixes, the prefix selection and the Display,         *)
(* LowerExp and UpperExp implementations of SINumber.                      *)
(***************************************************************************)
_HERTZ == <<0, 0, -1, 0, 0, 0, 0>>

_WATT == <<2, 1, -3, 0, 0, 0, 0>>

_JOULE_PER_MOL_AND_KELVIN == <<2, 1, -2, 0, -1, -1, 0>>

_AMPERE_SECOND == <<0, 0, 1, 1, 0, 0, 0>>

_VOLT == <<2, 1, -3, -1, 0, 0, 0>>

_OHM == <<2, 1, -3, -2, 0, 0, 0>>

_SIEMENS == <<-2, -1, 3, 2, 0, 0, 0>>

_WEBER == <<2, 1, -2, -1, 0, 0, 0>>

_TESLA == <<0, 1, -2, -1, 0, 0, 0>>

_HENRY == <<2, 1, -2, -2, 0, 0, 0>>

\* the HashMap left by `m.insert(key, value)` for each <<key, value>> of the
\* entries in order: a key holds the value of its last insert
HashMap_from(entries) ==
    [k \in {entries[i][1] : i \in DOMAIN entries} |->
        entries[CHOOSE i \in DOMAIN entries :
                   /\ entries[i][1] = k
                   /\ \A j \in (i + 1)..Len(entries) : entries[j][1] # k][2]]

\* const METER (fmt.rs:215)
METER == [value |-> f64_ONE, unit |-> _METER]

\* const GRAM (fmt.rs:216)
GRAM == [value |-> Dec(FALSE, <<1>>, -3), unit |-> _KILOGRAM]

\* const SECOND (fmt.rs:217)
SECOND == [value |-> f64_ONE, unit |-> _SECOND]

\* const MOL (fmt.rs:218)
MOL == [value |-> f64_ONE, unit |-> _MOL]

\* const KELVIN (fmt.rs:219)
KELVIN == [value |-> f64_ONE, unit |-> _KELVIN]

\* const HERTZ (fmt.rs:220)
HERTZ == [value |-> f64_ONE, unit |-> _HERTZ]

\* const NEWTON (fmt.rs:221)
NEWTON == [value |-> f64_ONE, unit |-> _NEWTON]

\* const PASCAL (fmt.rs:222)
PASCAL == [value |-> f64_ONE, unit |-> _PASCAL]

\* const JOULE (fmt.rs:223)
JOULE == [value |-> f64_ONE, unit |-> _JOULE]

\* const WATT (fmt.rs:224)
WATT == [value |-> f64_ONE, unit |-> _WATT]

\* const CUBIC_METER (fmt.rs:225)
CUBIC_METER == [value |-> f64_ONE, unit |-> SIUnit_powi(_METER, 3, FALSE).unit]

\* const SQUARE_METER (fmt.rs:226)
SQUARE_METER == [value |-> f64_ONE, unit |-> SIUnit_powi(_METER, 2, FALSE).unit]

\* const KILOGRAM (fmt.rs:227)
KILOGRAM == [value |-> f64_ONE, unit |-> _KILOGRAM]

\* const COULOMB (fmt.rs:228)
COULOMB == [value |-> f64_ONE, unit |-> _AMPERE_SECOND]

\* const VOLT (fmt.rs:229)
VOLT == [value |-> f64_ONE, unit |-> _VOLT]

\* const FARAD (fmt.rs:230)
FARAD == [value |-> f64_ONE, unit |-> _FARAD]

\* const OHM (fmt.rs:231)
OHM == [value |-> f64_ONE, unit |-> _OHM]

\* const SIEMENS (fmt.rs:232)
SIEMENS == [value |-> f64_ONE, unit |-> _SIEMENS]

\* const WEBER (fmt.rs:233)
WEBER == [value |-> f64_ONE, unit |-> _WEBER]

\* const TESLA (fmt.rs:234)
TESLA == [value |-> f64_ONE, unit |-> _TESLA]

\* const HENRY (fmt.rs:235)
HENRY == [value |-> f64_ONE, unit |-> _HENRY]

\* const CANDELA (fmt.rs:236)
CANDELA == [value |-> f64_ONE, unit |-> _CANDELA]

\* const SQUARE_SECOND (fmt.rs:237)
SQUARE_SECOND == [value |-> f64_ONE, unit |-> SIUnit_powi(_SECOND, 2, FALSE).unit]

\* the atomic unit symbols with their reference and prefix bound, in
\* the order of insertion
DERIVED_UNIT_SYMBOLS_entries ==
    <<
      <<"m", [si |-> METER, hp |-> Some(MEGA)]>>,
      <<"g", [si |-> GRAM, hp |-> Some(MEGA)]>>,
      <<"s", [si |-> SECOND, hp |-> Some(KILO)]>>,
      <<"mol", [si |-> MOL, hp |-> Some(MEGA)]>>,
      <<"K", [si |-> KELVIN, hp |-> None]>>,
      <<"Hz", [si |-> HERTZ, hp |-> Some(PETA)]>>,
      <<"N", [si |-> NEWTON, hp |-> Some(PETA)]>>,
      <<"Pa", [si |-> PASCAL, hp |-> Some(PETA)]>>,
      <<"J", [si |-> JOULE, hp |-> Some(PETA)]>>,
      <<"W", [si |-> WATT, hp |-> Some(PETA)]>>,
      <<"m³", [si |-> CUBIC_METER, hp |-> None]>>,
      <<"m²", [si |-> SQUARE_METER, hp |-> None]>>,
      <<"kg", [si |-> KILOGRAM, hp |-> None]>>,
      <<"C", [si |-> COULOMB, hp |-> None]>>,
      <<"V", [si |-> VOLT, hp |-> Some(PETA)]>>,
      <<"F", [si |-> FARAD, hp |-> Some(PETA)]>>,
      <<"Ω", [si |-> OHM, hp |-> Some(PETA)]>>,
      <<"S", [si |-> SIEMENS, hp |-> Some(PETA)]>>,
      <<"Wb", [si |-> WEBER, hp |-> Some(PETA)]>>,
      <<"T", [si |-> TESLA, hp |-> Some(PETA)]>>,
      <<"H", [si |-> HENRY, hp |-> Some(PETA)]>>,
      <<"lm", [si |-> CANDELA, hp |-> None]>>,
      <<"s²", [si |-> SQUARE_SECOND, hp |-> None]>>
    >>

\* the unit expressions of the registry, in the order of insertion, each
\* split into its (operator, symbol) pairs
DERIVED_UNITS_expressions ==
    <<
      << <<"*", "m">> >>,
      << <<"*", "g">> >>,
      << <<"*", "s">> >>,
      << <<"*", "mol">> >>,
      << <<"*", "K">> >>,
      << <<"*", "Hz">> >>,
      << <<"*", "N">> >>,
      << <<"*", "Pa">> >>,
      << <<"*", "J">> >>,
      << <<"*", "W">> >>,
      << <<"*", "C">> >>,
      << <<"*", "V">> >>,
      << <<"*", "F">> >>,
      << <<"*", "Ω">> >>,
      << <<"*", "S">> >>,
      << <<"*", "Wb">> >>,
      << <<"*", "T">> >>,
      << <<"*", "H">> >>,
      << <<"*", "mol">>, <<"/", "m³">> >>,
      << <<"*", "mol">>, <<"/", "m²">> >>,
      << <<"*", "mol">>, <<"/", "m">> >>,
      << <<"*", "m³">>, <<"/", "mol">> >>,
      << <<"*", "m³">>, <<"/", "mol">>, <<"/", "K">> >>,
      << <<"*", "g">>, <<"/", "m³">> >>,
      << <<"*", "N">>, <<"/", "m">> >>,
      << <<"*", "J">>, <<"*", "s">> >>,
      << <<"*", "J">>, <<"/", "mol">> >>,
      << <<"*", "J">>, <<"/", "K">> >>,
      << <<"*", "J">>, <<"/", "mol">>, <<"/", "K">> >>,
      << <<"*", "J">>, <<"/", "kg">> >>,
      << <<"*", "J">>, <<"/", "kg">>, <<"/", "K">> >>,
      << <<"*", "Pa">>, <<"*", "s">> >>,
      << <<"*", "m">>, <<"/", "s">> >>,
      << <<"*", "m²">>, <<"/", "s">> >>,
      << <<"*", "W">>, <<"/", "m">>, <<"/", "K">> >>,
      << <<"*", "g">>, <<"/", "mol">> >>,
      << <<"*", "m²">> >>,
      << <<"*", "m³">> >>,
      << <<"*", "lm">>, <<"/", "W">> >>,
      << <<"*", "m³">>, <<"/", "kg">>, <<"/", "s²">> >>
    >>

\* static DERIVED_UNIT_SYMBOLS
DERIVED_UNIT_SYMBOLS == HashMap_from(DERIVED_UNIT_SYMBOLS_entries)

\* s.replace('*', "") of the expression made of the given pairs
RECURSIVE replace_star(_, _)
replace_star(tokens, i) ==
    IF tokens = <<>> THEN ""
    ELSE (IF Head(tokens)[1] = "/" THEN "/" ELSE "")
         \o Head(tokens)[2] \o replace_star(Tail(tokens), i + 1)

\* a slip: the prefix bound taken from every pair, not from the first
insert_derived_unit_step_slip(acc, o, u, sym, i) ==
    [acc EXCEPT
       !.unit =
           CASE o = "*" ->
                  [value |-> Dec_mul(acc.unit.value, sym.si.value),
                   unit |-> SIUnit_mul(acc.unit.unit, sym.si.unit, FALSE).unit]
             [] o = "/" ->
                  [value |-> Dec_div(acc.unit.value, sym.si.value),
                   unit |-> SIUnit_div(acc.unit.unit, sym.si.unit, FALSE).unit]
             [] OTHER -> acc.unit,
       !.has_prefix = sym.hp,
       !.symbols = Append(acc.symbols, IF u \in {"m³", "m²"} THEN "m" ELSE u),
       !.exponents =
           Append(acc.exponents,
                  (CASE u = "m³" -> 3 [] u = "m²" -> 2 [] OTHER -> 1)
                  * (CASE o = "*" -> 1 [] o = "/" -> -1 [] OTHER -> 0))]

\* one pass of the loop of insert_derived_unit: the pair (o, u) met at
\* position i, sym the entry DERIVED_UNIT_SYMBOLS.get(u)
insert_derived_unit_step(acc, o, u, sym, i) ==
    [acc EXCEPT
       !.unit =
           CASE o = "*" ->
                  [value |-> Dec_mul(acc.unit.value, sym.si.value),
                   unit |-> SIUnit_mul(acc.unit.unit, sym.si.unit, FALSE).unit]
             [] o = "/" ->
                  [value |-> Dec_div(acc.unit.value, sym.si.value),
                   unit |-> SIUnit_div(acc.unit.unit, sym.si.unit, FALSE).unit]
             [] OTHER -> acc.unit,
       !.has_prefix = IF i = 0 THEN sym.hp ELSE acc.has_prefix,
       !.symbols = Append(acc.symbols, IF u \in {"m³", "m²"} THEN "m" ELSE u),
       !.exponents =
           Append(acc.exponents,
                  (CASE u = "m³" -> 3 [] u = "m²" -> 2 [] OTHER -> 1)
                  * (CASE o = "*" -> 1 [] o = "/" -> -1 [] OTHER -> 0))]

\* the loop of insert_derived_unit over the (operator, symbol) pairs
RECURSIVE insert_derived_unit_loop(_, _, _)
insert_derived_unit_loop(acc, tokens, i) ==
    IF tokens = <<>> THEN acc
    ELSE insert_derived_unit_loop(
             insert_derived_unit_step(acc, Head(tokens)[1], Head(tokens)[2],
                                      DERIVED_UNIT_SYMBOLS[Head(tokens)[2]], i),
             Tail(tokens), i + 1)

\* the entry insert_derived_unit makes of an expression
derived_unit(tokens) ==
    insert_derived_unit_loop(
        [unit |-> [value |-> f64_ONE, unit |-> DIMENSIONLESS],
         symbol |-> replace_star(tokens, 0),
         has_prefix |-> None, symbols |-> <<>>, exponents |-> <<>>],
        tokens, 0)

\* a slip: the temperature component left out of the key
insert_derived_unit_slip(e) == <<[e.unit.unit EXCEPT ![6] = 0], e>>

\* map.insert(unit.unit, (unit, symbol, has_prefix, symbols, exponents))
insert_derived_unit(e) == <<e.unit.unit, e>>

\* static DERIVED_UNITS: insert_derived_unit for each expression in order
DERIVED_UNITS ==
    HashMap_from([i \in DOMAIN DERIVED_UNITS_expressions |->
                    insert_derived_unit(
                        derived_unit(DERIVED_UNITS_expressions[i]))])

\* a slip: the symbol of micro written with a plain letter
PREFIX_SYMBOLS_entries_slip ==
    << <<0, " ">>, <<-24, "y">>, <<-21, "z">>, <<-18, "a">>, <<-15, "f">>,
       <<-12, "p">>, <<-9, "n">>, <<-6, "u">>, <<-3, "m">>, <<3, "k">>,
       <<6, "M">>, <<9, "G">>, <<12, "T">>, <<15, "P">>, <<18, "E">>,
       <<21, "Z">>, <<24, "Y">> >>

\* the inserts of the closure of PREFIX_SYMBOLS, in order
PREFIX_SYMBOLS_entries ==
    << <<0, " ">>, <<-24, "y">>, <<-21, "z">>, <<-18, "a">>, <<-15, "f">>,
       <<-12, "p">>, <<-9, "n">>, <<-6, "µ">>, <<-3, "m">>, <<3, "k">>,
       <<6, "M">>, <<9, "G">>, <<12, "T">>, <<15, "P">>, <<18, "E">>,
       <<21, "Z">>, <<24, "Y">> >>

\* static PREFIX_SYMBOLS: the closure that builds the table
PREFIX_SYMBOLS == HashMap_from(PREFIX_SYMBOLS_entries)

\* LazyLock::force: the first use runs the closure, later uses read the cell
LazyLock_force(cell, built) ==
    IF cell.init THEN cell ELSE [init |-> TRUE, map |-> built]

\* a slip: the lower limit of the eligible values left out
prefix_eligible_no_floor(v, has_prefix) ==
    /\ has_prefix.some
    /\ Dec_lt(Dec_abs(v), has_prefix.v)

\* the eligibility test of get_prefix
prefix_eligible(v, has_prefix) ==
    /\ has_prefix.some
    /\ Dec_lt(PICO, Dec_abs(v))
    /\ Dec_lt(Dec_abs(v), has_prefix.v)

\* a slip: the exponent rounded towards zero
i8_div_3_times_3(n) == IF n < 0 THEN -(((-n) \div 3) * 3) ELSE (n \div 3) * 3

\* (.. as i8).div_euclid(3) * 3
div_euclid_3_times_3(n) == (n \div 3) * 3

\* a slip: the bound is not looked at
get_prefix_unbounded(v, has_prefix, lg, table) ==
    LET e == div_euclid_3_times_3(f64_as_i8(lg))
    IN  IF e \in DOMAIN table
        THEN [kind |-> "ok", value |-> Dec_div_pow10(v, e),
              prefix |-> table[e], e |-> e]
        ELSE [kind |-> "panic", value |-> v, prefix |-> "", e |-> e]

\* get_prefix; lg is the result of abs_value.log10().floor(), table the
\* content of PREFIX_SYMBOLS
get_prefix(v, has_prefix, lg, table) ==
    IF has_prefix.some
    THEN LET e == IF prefix_eligible(v, has_prefix)
                  THEN div_euclid_3_times_3(f64_as_i8(lg))
                  ELSE 0
         IN  IF e \in DOMAIN table
             THEN [kind |-> "ok", value |-> Dec_div_pow10(v, e),
                   prefix |-> table[e], e |-> e]
             ELSE [kind |-> "panic", value |-> v, prefix |-> "", e |-> e]
    ELSE [kind |-> "ok", value |-> v, prefix |-> "", e |-> 0]

\* the values abs_value.log10().floor() can take in get_prefix (not
\* computed when the value is not eligible)
log10_floor_outcomes(v, has_prefix) ==
    IF prefix_eligible(v, has_prefix)
    THEN f64_log10_floor(Dec_abs(v))
    ELSE {0}

RECURSIVE unit_parts(_, _)
unit_parts(u, k) ==
    IF k > 7 THEN <<>>
    ELSE (CASE u[k] = 0 -> <<>>
            [] u[k] = 1 -> <<UNIT_SYMBOLS[k]>>
            [] OTHER -> <<UNIT_SYMBOLS[k] \o "^" \o IntStr(u[k])>>)
         \o unit_parts(u, k + 1)

RECURSIVE join(_, _)
join(parts, sep) ==
    IF parts = <<>> THEN ""
    ELSE IF Len(parts) = 1 THEN parts[1]
    ELSE parts[1] \o sep \o join(Tail(parts), sep)

\* a slip: the parts written without a separator
SIUnit_Display_unspaced(u) ==
    IF u \in DOMAIN DERIVED_UNITS
    THEN DERIVED_UNITS[u].symbol
    ELSE join(unit_parts(u, 1), "")

\* impl Display for SIUnit
SIUnit_Display(u) ==
    IF u \in DOMAIN DERIVED_UNITS
    THEN DERIVED_UNITS[u].symbol
    ELSE join(unit_parts(u, 1), " ")

\* the text written to the formatter, fmt::Result Ok
OkString(s) == [Idle EXCEPT !.kind = "ok", !.flag = s]

\* a slip: the test for zero left out
uses_exponent_slip(v) == ~Range_contains(PLAIN_LOW, PLAIN_HIGH, Dec_abs(v))

\* !((1e-2..1e4).contains(&value.abs()) || value == 0.0)
uses_exponent(v) ==
    ~(Range_contains(PLAIN_LOW, PLAIN_HIGH, Dec_abs(v)) \/ Dec_is_zero(v))

\* the two ways Display writes a value v before the text of its unit
SINumber_Display_write(v, unit_text) ==
    IF uses_exponent(v)
    THEN OkString(f64_LowerExp(v) \o " " \o unit_text)
    ELSE OkString(f64_Display(v) \o " " \o unit_text)

\* Display with the pair g that get_prefix returned
SINumber_Display_prefixed(g, symbol) ==
    IF g.kind = "panic" THEN Panic("unwrap", <<>>, <<>>)
    ELSE SINumber_Display_write(g.value, g.prefix \o symbol)

\* Display with the entry d that DERIVED_UNITS.get(&self.unit) returned
SINumber_Display_derived(n, d, lg, table) ==
    SINumber_Display_prefixed(
        get_prefix(Dec_div(n.value, d.unit.value), d.has_prefix, lg, table),
        d.symbol)

\* a slip: the prefix is left out of the text
SINumber_Display_noprefix(n, lg, table) ==
    OkString(f64_Display(n.value) \o " " \o SIUnit_Display(n.unit))

\* impl fmt::Display for SINumber
SINumber_Display(n, lg, table) ==
    IF n.unit \in DOMAIN DERIVED_UNITS /\ ~Dec_is_nan(n.value)
    THEN SINumber_Display_derived(n, DERIVED_UNITS[n.unit], lg, table)
    ELSE SINumber_Display_write(n.value, SIUnit_Display(n.unit))

\* impl_fmt! with the entry d that DERIVED_UNITS.get(&self.unit) returned
impl_fmt_derived(n, d, letter) ==
    OkString(f64_Exp(Dec_div(n.value, d.unit.value), letter) \o " " \o d.symbol)

\* impl_fmt!(fmt::LowerExp), impl_fmt!(fmt::UpperExp)
impl_fmt(n, letter) ==
    IF n.unit \in DOMAIN DERIVED_UNITS /\ ~Dec_is_nan(n.value)
    THEN impl_fmt_derived(n, DERIVED_UNITS[n.unit], letter)
    ELSE OkString(f64_Exp(n.value, letter) \o " " \o SIUnit_Display(n.unit))


\* the f64 values given to the formatter
FmtValues ==
    {Dec(FALSE, <<>>, 0),
     Dec(FALSE, <<1>>, 0),
     Dec(FALSE, <<2, 5>>, 1),
     Dec(FALSE, <<5>>, 1),
     Dec(FALSE, <<1>>, 3),
     Dec(FALSE, <<2, 5>>, 3),
     Dec(FALSE, <<9, 8, 1>>, 3),
     Dec(FALSE, <<1, 2, 3, 4, 5, 6, 7, 8>>, 4),
     Dec(FALSE, <<1>>, 6),
     Dec(FALSE, <<1, 5>>, 7),
     Dec(FALSE, <<1>>, 15),
     Dec(FALSE, <<8, 3, 1, 4>>, 0),
     Dec(FALSE, <<1>>, 4),
     Dec(FALSE, <<1>>, -2),
     Dec(FALSE, <<5>>, -2),
     Dec(FALSE, <<5>>, -3),
     Dec(FALSE, <<2, 5>>, -5),
     Dec(FALSE, <<1>>, -12),
     Dec(FALSE, <<5>>, -13),
     Dec(FALSE, <<9, 9, 9, 9, 9, 9, 9, 9, 9, 9, 9, 9, 9, 9, 9, 9>>, 2),
     Dec(FALSE, <<9, 9, 9, 9, 9, 9, 9, 9, 9, 9, 9, 9, 9, 9, 9, 9>>, 14),
     Dec(TRUE, <<2, 5>>, 3),
     Dec(FALSE, <<1, 0, 0, 0, 0, 0, 0, 0, 0, 0, 0, 0, 0, 0, 0, 0, 2>>, -12),
     Dec(FALSE, <<1>>, -30),
     Dec(FALSE, <<1>>, 30),
     f64_INFINITY,
     f64_NEG_INFINITY,
     f64_NAN}

\* units given to the formatter: registered ones with each kind of prefix
\* bound, and four that the registry does not hold (A, m K^-1, the unit of
\* J cd that differs from J in one component, and the dimensionless unit)
FmtUnits ==
    {_METER, _KILOGRAM, _SECOND, _KELVIN, _JOULE, _VOLT,
     _JOULE_PER_MOL_AND_KELVIN, SQUARE_METER.unit, _AMPERE,
     <<1, 0, 0, 0, 0, -1, 0>>, <<2, 1, -2, 0, 0, 0, 1>>, DIMENSIONLESS}

SINumbers == {[value |-> v, unit |-> u] : v \in FmtValues, u \in FmtUnits}

\* the prefix bounds that occur in DERIVED_UNIT_SYMBOLS
PrefixBounds == {None, Some(KILO), Some(MEGA), Some(PETA)}

\* the registry entry is used for n
is_derived(n) == n.unit \in DOMAIN DERIVED_UNITS /\ ~Dec_is_nan(n.value)

\* self.value / unit.value
reduced_value(n) == Dec_div(n.value, DERIVED_UNITS[n.unit].unit.value)

\* the arguments Display gives to get_prefix, if it calls it
Display_value(n) == IF is_derived(n) THEN reduced_value(n) ELSE n.value

Display_has_prefix(n) ==
    IF is_derived(n) THEN DERIVED_UNITS[n.unit].has_prefix ELSE None

\* the pair get_prefix returns, or the panic of its unwrap
get_prefix_result(g) ==
    IF g.kind = "panic"
    THEN Panic("unwrap", <<>>, <<>>)
    ELSE [Idle EXCEPT !.kind = "ok", !.value = g.value, !.flag = g.prefix]

\* format!("{}", x)
SINumber_fmt_Display ==
    /\ Ready
    /\ lazy' = IF Display_has_prefix(x).some
               THEN [lazy EXCEPT !.PREFIX_SYMBOLS =
                        LazyLock_force(lazy.PREFIX_SYMBOLS, PREFIX_SYMBOLS)]
               ELSE lazy
    /\ \E lg \in log10_floor_outcomes(Display_value(x), Display_has_prefix(x)) :
          /\ res' = SINumber_Display(x, lg, lazy'.PREFIX_SYMBOLS.map)
          /\ last' = [Call("Display") EXCEPT !.i = lg]
    /\ UNCHANGED <<build, x, arr>>

\* format!("{:e}", x)
SINumber_fmt_LowerExp ==
    /\ Ready
    /\ res' = impl_fmt(x, "e")
    /\ last' = Call("LowerExp")
    /\ UNCHANGED <<build, x, arr, lazy>>

\* format!("{:E}", x)
SINumber_fmt_UpperExp ==
    /\ Ready
    /\ res' = impl_fmt(x, "E")
    /\ last' = Call("UpperExp")
    /\ UNCHANGED <<build, x, arr, lazy>>

\* get_prefix(x.value, has_prefix)
Call_get_prefix ==
    /\ Ready
    /\ \E hp \in PrefixBounds :
          /\ lazy' = IF hp.some
                     THEN [lazy EXCEPT !.PREFIX_SYMBOLS =
                              LazyLock_force(lazy.PREFIX_SYMBOLS, PREFIX_SYMBOLS)]
                     ELSE lazy
          /\ \E lg \in log10_floor_outcomes(x.value, hp) :
                /\ res' = get_prefix_result(
                              get_prefix(x.value, hp, lg, lazy'.PREFIX_SYMBOLS.map))
                /\ last' = [Call("get_prefix") EXCEPT
                              !.y = hp, !.i = lg,
                              !.j = get_prefix(x.value, hp, lg,
                                               lazy'.PREFIX_SYMBOLS.map).e]
    /\ UNCHANGED <<build, x, arr>>

InitFmt ==
    /\ build \in Builds
    /\ lazy = LazyInit
    /\ x \in SINumbers
    /\ arr = _ARRAY0
    /\ last = NoCall
    /\ res = Idle

NextFmt ==
    \/ SINumber_fmt_Display
    \/ SINumber_fmt_LowerExp
    \/ SINumber_fmt_UpperExp
    \/ Call_get_prefix
    \/ Continue

SpecFmt == InitFmt /\ [][NextFmt]_vars

\* texts the formatter has to give for a few quantities
FmtExamples ==
    /\ Cardinality(DOMAIN DERIVED_UNITS) = 40
    /\ SINumber_Display([value |-> Dec(FALSE, <<9, 8, 1>>, 3), unit |-> _NEWTON],
                        3, PREFIX_SYMBOLS).flag = "9.81 kN"
    /\ impl_fmt([value |-> PICO, unit |-> _METER], "e").flag = "1e-12 m"
    /\ SINumber_Display([value |-> f64_ZERO, unit |-> _KELVIN], 0, <<>>).flag = "0 K"
    /\ SINumber_Display([value |-> Dec(FALSE, <<8, 3, 1, 4>>, 0),
                         unit |-> _JOULE_PER_MOL_AND_KELVIN],
                        0, PREFIX_SYMBOLS).flag = "8.314  J/mol/K"
    /\ f64_Display(Dec(FALSE, <<2, 7, 3, 1, 5>>, 2)) = "273.15"
    /\ f64_Display(Dec(TRUE, <<5>>, -3)) = "-0.005"
    /\ f64_Display(Dec(FALSE, <<1>>, 5)) = "100000"
    /\ f64_LowerExp(Dec(FALSE, <<1, 2, 3, 4, 5, 6, 7, 8>>, 4)) = "1.2345678e4"
    /\ SIUnit_Display(<<1, 0, -2, 0, 0, -1, 0>>) = "m s^-2 K^-1"


\* the text composed of a number text, one space, a prefix and a symbol
Composed(number, prefix, symbol) == number \o " " \o prefix \o symbol

\* C17: for a non-NaN quantity whose unit is in the registry, Display
\* prints the value divided by the entry's reference value and scaled by
\* the prefix selection, one space, and the prefix symbol directly followed
\* by the entry symbol (2500 V prints "2.5 kV"); LowerExp and UpperExp
\* print the reduced value in scientific notation, one space and the entry
\* symbol without a prefix (50 kg prints "5E4 g").
Thm_C17 ==
    (last.op \in {"Display", "LowerExp", "UpperExp"} /\ is_derived(last.x0)) =>
       LET entry == DERIVED_UNITS[last.x0.unit]
           reduced == Dec_div(last.x0.value, entry.unit.value)
           sel == get_prefix(reduced, entry.has_prefix, last.i, PREFIX_SYMBOLS)
       IN  /\ res.kind = "ok"
           /\ last.op = "Display" =>
                 /\ res.flag \in {Composed(f64_Display(sel.value), sel.prefix, entry.symbol),
                                  Composed(f64_LowerExp(sel.value), sel.prefix, entry.symbol)}
                 /\ (last.x0.value = Dec(FALSE, <<2, 5>>, 3) /\ last.x0.unit = _VOLT)
                       => res.flag = "2.5 kV"
           /\ last.op = "LowerExp" =>
                 res.flag = Composed(f64_LowerExp(reduced), "", entry.symbol)
           /\ last.op = "UpperExp" =>
                 /\ res.flag = Composed(f64_UpperExp(reduced), "", entry.symbol)
                 /\ (last.x0.value = Dec(FALSE, <<5>>, 1) /\ last.x0.unit = _KILOGRAM)
                       => res.flag = "5E4 g"

Wit_C17 ==
    /\ last.op = "Display"
    /\ last.x0 = [value |-> Dec(FALSE, <<2, 5>>, 3), unit |-> _VOLT]
    /\ res.kind = "ok"
    /\ res.flag = "2.5 kV"

\* the input of get_prefix is eligible: the bound is Some(b) and
\* 1e-12 < |value| < b
Eligible ==
    /\ last.op = "get_prefix"
    /\ last.y.some
    /\ Dec_lt(PICO, Dec_abs(last.x0.value))
    /\ Dec_lt(Dec_abs(last.x0.value), last.y.v)

\* e is the largest multiple of 3 that does not exceed n
LargestMultipleOf3(e, n) == e % 3 = 0 /\ e <= n /\ n < e + 3

\* 1 <= |v| < 1000
InUnitRange(v) == ~Dec_lt(Dec_abs(v), f64_ONE) /\ Dec_lt(Dec_abs(v), KILO)

\* get_prefix returned the symbol of exponent e and the value divided by
\* 10^e, where e is the largest multiple of 3 not above n
SelectedFor(n) ==
    /\ res.kind = "ok"
    /\ LargestMultipleOf3(last.j, n)
    /\ last.j \in DOMAIN PREFIX_SYMBOLS
    /\ res.flag = PREFIX_SYMBOLS[last.j]
    /\ res.value = Dec_div_pow10(last.x0.value, last.j)

\* C18 (as stated): for an eligible value the exponent is the largest
\* multiple of 3 that does not exceed floor(log10(|value|)), the symbol is
\* that of the exponent, the value is divided by 10^exponent, and the
\* magnitude of the scaled value lies in [1, 1000).
CE_C18 ==
    Eligible => (SelectedFor(last.x0.value.exp) /\ InUnitRange(res.value))

\* C18 (amended): the exponent is the largest multiple of 3 that does not
\* exceed the floor of the f64 logarithm; this floor is the exact one
\* except for a value within rounding distance below a power of ten,
\* where it may be one more; the scaled magnitude lies in [1, 1000)
\* whenever the floor is the exact one, and in [0.001, 1000) always.
Thm_C18 ==
    Eligible =>
       /\ SelectedFor(last.i)
       /\ last.i \in {last.x0.value.exp, last.x0.value.exp + 1}
       /\ ~NearPowerOfTen(last.x0.value) => last.i = last.x0.value.exp
       /\ last.i = last.x0.value.exp => InUnitRange(res.value)
       /\ ~Dec_lt(Dec_abs(res.value), Dec(FALSE, <<1>>, -3))
       /\ Dec_lt(Dec_abs(res.value), KILO)

Wit_C18 ==
    /\ Eligible
    /\ last.x0.value = Dec(FALSE, <<2, 5>>, -5)
    /\ last.y = Some(PETA)
    /\ last.j = -6
    /\ res.flag = "µ"
    /\ f64_Display(res.value) = "25.000000000000004"

\* C19: with the bound None the value comes back unchanged with the empty
\* prefix; with a bound Some(b) and |value| <= 1e-12 or |value| >= b (zero
\* included) the value comes back unchanged and the exponent is 0.
Thm_C19 ==
    last.op = "get_prefix" =>
       /\ ~last.y.some =>
             /\ res.kind = "ok"
             /\ res.value = last.x0.value
             /\ res.flag = ""
       /\ (last.y.some /\ ~Eligible) =>
             /\ res.kind = "ok"
             /\ res.value = last.x0.value
             /\ last.j = 0

Wit_C19 ==
    /\ last.op = "get_prefix"
    /\ last.y = Some(KILO)
    /\ last.x0.value = KILO
    /\ res.value = KILO
    /\ last.j = 0

\* the multiples of three from -24 to 24
PrefixExponents == {3 * k : k \in -8..8}

\* the table with the given symbol at exponent 0
PrefixTable(zero) ==
    [e \in PrefixExponents |->
        <<"y", "z", "a", "f", "p", "n", "µ", "m", zero,
          "k", "M", "G", "T", "P", "E", "Z", "Y">>[(e \div 3) + 9]]

\* once built the table is never changed
NeverModified ==
    [][lazy.PREFIX_SYMBOLS.init => lazy'.PREFIX_SYMBOLS = lazy.PREFIX_SYMBOLS]_vars

\* C20 (as stated): the table maps exactly the multiples of three from
\* -24 to 24 to y, z, a, f, p, n, µ, m, "" (empty for exponent 0), k, M,
\* G, T, P, E, Z, Y, and is never modified after it is built.
CE_C20 ==
    /\ [](lazy.PREFIX_SYMBOLS.init => lazy.PREFIX_SYMBOLS.map = PrefixTable(""))
    /\ NeverModified

\* C20 (amended): as stated, except that exponent 0 is mapped to one space
\* (" "), not to the empty string.
Thm_C20 ==
    /\ [](lazy.PREFIX_SYMBOLS.init => lazy.PREFIX_SYMBOLS.map = PrefixTable(" "))
    /\ NeverModified

Wit_C20 ==
    /\ lazy.PREFIX_SYMBOLS.init
    /\ last.op = "get_prefix"
    /\ last.y = Some(MEGA)
    /\ last.j = 0
    /\ res.flag = " "


(***************************************************************************)
(* Formatter: quantities whose unit the registry does not hold.            *)
(***************************************************************************)
\* the components of u that are not zero, in component order
NonZeroComponents(u) == SelectSeq(<<1, 2, 3, 4, 5, 6, 7>>, LAMBDA k : u[k] # 0)

\* symbol^exponent of component k, the exponent left out when it is 1
RawTerm(u, k) ==
    IF u[k] = 1 THEN UNIT_SYMBOLS[k]
    ELSE UNIT_SYMBOLS[k] \o "^" \o IntStr(u[k])

\* the terms of the components ks with one space between two of them
RECURSIVE SpaceJoined(_, _)
SpaceJoined(u, ks) ==
    IF ks = <<>> THEN ""
    ELSE IF Len(ks) = 1 THEN RawTerm(u, ks[1])
    ELSE RawTerm(u, ks[1]) \o " " \o SpaceJoined(u, Tail(ks))

\* the raw base-unit notation of u
RawNotation(u) == SpaceJoined(u, NonZeroComponents(u))

\* a formatting call was made for a quantity
Formatted == last.op \in {"Display", "LowerExp", "UpperExp"}

\* C21: for a quantity whose unit has no exact registry entry the text is
\* the unreduced value, one space, and the base-unit symbols of exactly the
\* non-zero components in component order, joined by single spaces, each
\* written symbol^exponent with the exponent left out when it is 1; an
\* entry of a unit that differs in some component is never used.
Thm_C21 ==
    (Formatted /\ last.x0.unit \notin DOMAIN DERIVED_UNITS) =>
       /\ res.kind = "ok"
       /\ last.op = "Display" =>
             res.flag \in {f64_Display(last.x0.value) \o " " \o RawNotation(last.x0.unit),
                           f64_LowerExp(last.x0.value) \o " " \o RawNotation(last.x0.unit)}
       /\ last.op = "LowerExp" =>
             res.flag = f64_LowerExp(last.x0.value) \o " " \o RawNotation(last.x0.unit)
       /\ last.op = "UpperExp" =>
             res.flag = f64_UpperExp(last.x0.value) \o " " \o RawNotation(last.x0.unit)
       /\ \A k \in DOMAIN DERIVED_UNITS :
             ~(\E pre, post \in {"", " "} :
                  res.flag = f64_Display(last.x0.value) \o " " \o pre
                                 \o DERIVED_UNITS[k].symbol \o post)

Wit_C21 ==
    /\ last.op = "Display"
    /\ last.x0 = [value |-> Dec(FALSE, <<2, 5>>, 1),
                  unit |-> <<2, 1, -2, 0, 0, 0, 1>>]
    /\ res.kind = "ok"
    /\ res.flag = "25 m^2 kg s^-2 cd"


\* the number Display prints: the reduced, prefix-scaled value when the
\* registry entry is used, the value itself otherwise
NumberToPrint ==
    IF is_derived(last.x0)
    THEN get_prefix(reduced_value(last.x0),
                    DERIVED_UNITS[last.x0.unit].has_prefix,
                    last.i, PREFIX_SYMBOLS).value
    ELSE last.x0.value

\* v is not zero and its magnitude is outside [1e-2, 1e4)
NonZeroOutsidePlainRange(v) ==
    /\ ~Dec_is_zero(v)
    /\ \/ Dec_lt(Dec_abs(v), Dec(FALSE, <<1>>, -2))
       \/ ~Dec_lt(Dec_abs(v), Dec(FALSE, <<1>>, 4))

\* s begins with the text t followed by one space
BeginsWith(s, t) ==
    \E rest \in {" " \o SIUnit_Display(last.x0.unit),
                 " " \o RawNotation(last.x0.unit)} \cup
                {" " \o p \o SIUnit_Display(last.x0.unit) :
                     p \in {PREFIX_SYMBOLS[e] : e \in DOMAIN PREFIX_SYMBOLS}} :
       s = t \o rest

\* C22: Display prints the number in scientific notation iff the number to
\* print (the reduced, prefix-scaled value when the registry entry is used,
\* the value itself otherwise) is not zero and its magnitude is outside
\* [1e-2, 1e4); zero is printed in plain notation (0 K prints "0 K").
Thm_C22 ==
    last.op = "Display" =>
       /\ res.kind = "ok"
       /\ IF NonZeroOutsidePlainRange(NumberToPrint)
          THEN BeginsWith(res.flag, f64_LowerExp(NumberToPrint))
          ELSE BeginsWith(res.flag, f64_Display(NumberToPrint))
       /\ (Dec_is_zero(last.x0.value) /\ last.x0.unit = _KELVIN)
             => res.flag = "0 K"

Wit_C22 ==
    /\ last.op = "Display"
    /\ last.x0 = [value |-> Dec(FALSE, <<1>>, 4), unit |-> _KELVIN]
    /\ res.kind = "ok"
    /\ res.flag = "1e4 K"

\* zero with a unit that takes prefixes is printed plainly as well
Wit_C22_zero ==
    /\ last.op = "Display"
    /\ last.x0 = [value |-> f64_ZERO, unit |-> _JOULE]
    /\ res.flag = "0  J"


\* a formatting call was made for a quantity whose value is NaN
FormattedNaN == Formatted /\ last.x0.value.nan

\* C23 (as stated): for a NaN value the registry is not consulted at all:
\* the text is the bare value followed by the raw base-unit notation of the
\* unit, even when the unit has a registry entry.
CE_C23 ==
    FormattedNaN =>
       /\ res.kind = "ok"
       /\ res.flag = "NaN" \o " " \o RawNotation(last.x0.unit)

\* C23 (amended): for a NaN value the reduction and the prefix selection
\* are skipped; the text is the bare value, one space and the text of the
\* unit alone, which is the registry symbol when the unit has a registry
\* entry and the raw base-unit notation otherwise.
Thm_C23 ==
    FormattedNaN =>
       /\ res.kind = "ok"
       /\ res.flag = "NaN" \o " "
                       \o (IF last.x0.unit \in DOMAIN DERIVED_UNITS
                           THEN DERIVED_UNITS[last.x0.unit].symbol
                           ELSE RawNotation(last.x0.unit))

Wit_C23 ==
    /\ last.op = "Display"
    /\ last.x0 = [value |-> f64_NAN, unit |-> _KILOGRAM]
    /\ res.kind = "ok"
    /\ res.flag = "NaN g"


(***************************************************************************)
(* Construction of the registry of derived units: the closure of the      *)
(* LazyLock makes its inserts one after the other into a local map and     *)
(* hands the map over when it returns; lookups see the finished map only.  *)
(***************************************************************************)
\* m.insert(k, v)
HashMap_insert(m, k, v) ==
    [q \in DOMAIN m \cup {k} |-> IF q = k THEN v ELSE m[q]]

\* m.get(k), as the list of the entries found
HashMap_get(m, k) == IF k \in DOMAIN m THEN <<m[k]>> ELSE <<>>

\* the closure of DERIVED_UNITS: not started, n inserts made into map
Closure_new == [init |-> FALSE, map |-> <<>>, n |-> 0]

\* the closure after the insert of the pair kv
Closure_insert(cell, kv) ==
    [cell EXCEPT !.map = HashMap_insert(cell.map, kv[1], kv[2]),
                 !.n = cell.n + 1]

\* the next insert_derived_unit(&mut m, ..) of the closure
DERIVED_UNITS_insert ==
    /\ Ready
    /\ ~lazy.DERIVED_UNITS.init
    /\ lazy.DERIVED_UNITS.n < Len(DERIVED_UNITS_expressions)
    /\ lazy' = [lazy EXCEPT !.DERIVED_UNITS =
                   Closure_insert(
                       lazy.DERIVED_UNITS,
                       insert_derived_unit(
                           derived_unit(
                               DERIVED_UNITS_expressions[lazy.DERIVED_UNITS.n + 1])))]
    /\ UNCHANGED <<build, x, arr, last, res>>

\* the closure returns m
DERIVED_UNITS_return ==
    /\ Ready
    /\ ~lazy.DERIVED_UNITS.init
    /\ lazy.DERIVED_UNITS.n = Len(DERIVED_UNITS_expressions)
    /\ lazy' = [lazy EXCEPT !.DERIVED_UNITS.init = TRUE]
    /\ UNCHANGED <<build, x, arr, last, res>>

\* DERIVED_UNITS.get(&x.unit)
DERIVED_UNITS_get ==
    /\ Ready
    /\ lazy.DERIVED_UNITS.init
    /\ res' = OkArray(HashMap_get(lazy.DERIVED_UNITS.map, x.unit), x.unit)
    /\ last' = Call("get")
    /\ UNCHANGED <<build, x, arr, lazy>>

InitRegistry ==
    /\ build \in Builds
    /\ lazy = [PREFIX_SYMBOLS |-> LazyLock_new, DERIVED_UNITS |-> Closure_new]
    /\ x \in {[value |-> f64_ONE, unit |-> u] : u \in FmtUnits}
    /\ arr = _ARRAY0
    /\ last = NoCall
    /\ res = Idle

NextRegistry ==
    \/ DERIVED_UNITS_insert
    \/ DERIVED_UNITS_return
    \/ DERIVED_UNITS_get
    \/ Continue

SpecRegistry == InitRegistry /\ [][NextRegistry]_vars

\* an insert adds a key the map did not hold and leaves the entries of
\* the other keys as they were
InsertAddsKey ==
    lazy'.DERIVED_UNITS.n = lazy.DERIVED_UNITS.n + 1 =>
       /\ Cardinality(DOMAIN lazy'.DERIVED_UNITS.map)
             = Cardinality(DOMAIN lazy.DERIVED_UNITS.map) + 1
       /\ \A k \in DOMAIN lazy.DERIVED_UNITS.map :
             lazy'.DERIVED_UNITS.map[k] = lazy.DERIVED_UNITS.map[k]

\* C24: the listed expressions give pairwise distinct unit vectors: no
\* insert overwrites an earlier one, the registry holds as many entries as
\* inserts were made (one per listed expression when it is finished), and a
\* lookup by unit vector returns at most one entry.
Thm_C24 ==
    /\ [][InsertAddsKey]_vars
    /\ [](Cardinality(DOMAIN lazy.DERIVED_UNITS.map) = lazy.DERIVED_UNITS.n)
    /\ [](lazy.DERIVED_UNITS.init =>
             /\ lazy.DERIVED_UNITS.n = Len(DERIVED_UNITS_expressions)
             /\ lazy.DERIVED_UNITS.map = DERIVED_UNITS)
    /\ [](last.op = "get" => Len(res.arrv) <= 1)

Wit_C24 ==
    /\ lazy.DERIVED_UNITS.init
    /\ Cardinality(DOMAIN lazy.DERIVED_UNITS.map) = Len(DERIVED_UNITS_expressions)
    /\ last.op = "get"
    /\ last.x0.unit = _JOULE
    /\ Len(res.arrv) = 1
    /\ res.arrv[1].symbol = "J"


(***************************************************************************)
(* A plain number or array on the left of * and / with a quantity on the   *)
(* right: impl_mul_op!(Mul, .., 1) and impl_mul_op!(Div, .., -1) of the    *)
(* core crate, __rmul__ and __rtruediv__ of the binding.                   *)
(***************************************************************************)
\* self $operator other.value for an f64 on the left
f64_op(trt, l, r) == IF trt = "Mul" THEN f64_mul(l, r) ELSE f64_div(l, r)

\* self $operator other.value for an array on the left
ArrayBase_op(trt, a, r) == [k \in DOMAIN a |-> f64_op(trt, a[k], r)]

\* the literal $exp of the two uses of the macro
impl_mul_op_exp(trt) == IF trt = "Mul" THEN 1 ELSE -1

\* impl $trt<Quantity<F, U>> for f64
f64_op_Quantity(trt, l, p, checks) ==
    LET u == SIUnit_powi(p.unit, impl_mul_op_exp(trt), checks)
    IN  IF u.kind = "panic" THEN Panic("overflow", p.unit, p.unit)
        ELSE OkQuantity(f64_op(trt, l, p.value), u.unit)

\* impl $trt<Quantity<F, U>> for ArrayBase<S, D>
ArrayBase_op_Quantity(trt, a, p, checks) ==
    LET u == SIUnit_powi(p.unit, impl_mul_op_exp(trt), checks)
    IN  IF u.kind = "panic" THEN Panic("overflow", p.unit, p.unit)
        ELSE OkArray(ArrayBase_op(trt, a, p.value), u.unit)

\* impl $trt<Quantity<F, U>> for &'a ArrayBase<S, D>
ref_ArrayBase_op_Quantity(trt, a, p, checks) ==
    OkArray(ArrayBase_op(trt, a, p.value), p.unit)

\* PySIObject::__rmul__ with a bare number on the left
PySIObject_rmul(l, p) == OkQuantity(f64_mul(l, p.value), p.unit)

MulOps == {"Mul", "Div"}

\* l * x, l / x
f64_mul_div_Quantity ==
    /\ Ready
    /\ \E trt \in MulOps, l \in Vals :
          /\ res' = f64_op_Quantity(trt, l, x, overflow_checks)
          /\ last' = [Call("f64 op Quantity") EXCEPT
                         !.cmp = trt, !.y = [value |-> l, unit |-> DIMENSIONLESS]]
    /\ UNCHANGED <<build, x, arr, lazy>>

\* a * x, a / x for an owned array a
ArrayBase_mul_div_Quantity ==
    /\ Ready
    /\ \E trt \in MulOps, a \in SeqsOfLen(Vals, ArrLen) :
          /\ res' = ArrayBase_op_Quantity(trt, a, x, overflow_checks)
          /\ last' = [Call("ArrayBase op Quantity") EXCEPT !.cmp = trt, !.seq = a]
    /\ UNCHANGED <<build, x, arr, lazy>>

\* &a * x, &a / x for a borrowed array a
ref_ArrayBase_mul_div_Quantity ==
    /\ Ready
    /\ \E trt \in MulOps, a \in SeqsOfLen(Vals, ArrLen) :
          /\ res' = ref_ArrayBase_op_Quantity(trt, a, x, overflow_checks)
          /\ last' = [Call("&ArrayBase op Quantity") EXCEPT !.cmp = trt, !.seq = a]
    /\ UNCHANGED <<build, x, arr, lazy>>

\* l * x, l / x through the binding
PySIObject_reflected ==
    /\ Ready
    /\ \E trt \in MulOps, l \in Vals :
          /\ res' = IF trt = "Mul"
                    THEN PySIObject_rmul(l, x)
                    ELSE PySIObject_rtruediv(l, x, overflow_checks)
          /\ last' = [Call("reflected") EXCEPT
                         !.cmp = trt, !.y = [value |-> l, unit |-> DIMENSIONLESS]]
    /\ UNCHANGED <<build, x, arr, lazy>>

InitLeft ==
    /\ build \in Builds
    /\ lazy = LazyInit
    /\ x \in Quantities
    /\ arr = _ARRAY0
    /\ last = NoCall
    /\ res = Idle

NextLeft ==
    \/ f64_mul_div_Quantity
    \/ ArrayBase_mul_div_Quantity
    \/ ref_ArrayBase_mul_div_Quantity
    \/ PySIObject_reflected
    \/ Continue

SpecLeft == InitLeft /\ [][NextLeft]_vars

\* the operations with a plain left operand
LeftOps ==
    {"f64 op Quantity", "ArrayBase op Quantity", "&ArrayBase op Quantity",
     "reflected"}

\* the unit whose components are the negated components of b
Inverse(b) == [k \in Dim |-> -b[k]]

\* C25: a plain number or array divided by a quantity of unit b gives a
\* quantity of unit inverse(b), for a scalar, an owned array, a borrowed
\* array and the reflected division of the binding on the left; a plain
\* number or array times a quantity of unit b gives unit b.
CE_C25 ==
    last.op \in LeftOps =>
       /\ res.kind = "ok"
       /\ last.cmp = "Div" => res.unit = Inverse(last.x0.unit)
       /\ last.cmp = "Mul" => res.unit = last.x0.unit

\* all forms but the borrowed array do so
LeftOpsButBorrowed ==
    (last.op \in LeftOps \ {"&ArrayBase op Quantity"}) =>
       /\ res.kind = "ok"
       /\ last.cmp = "Div" => res.unit = Inverse(last.x0.unit)
       /\ last.cmp = "Mul" => res.unit = last.x0.unit

\* the borrowed array divided by a quantity keeps the unit of the divisor
BorrowedDivKeepsUnit ==
    /\ last.op = "&ArrayBase op Quantity"
    /\ last.cmp = "Div"
    /\ last.x0.unit = _METER
    /\ res.kind = "ok"
    /\ res.unit = _METER


(***************************************************************************)
(* Completion of root.                                                     *)
(***************************************************************************)
\* C26: for every unit and every 32-bit index, 0, negative indices and
\* indices outside the 8-bit range included, root completes and returns Ok
\* or the InvalidRoot error; it never aborts the program.
CE_C26 ==
    last.op = "root" =>
       \/ res.kind = "ok"
       \/ res.kind = "err" /\ res.err.type = "InvalidRoot"

\* root completes whenever the index cast to i8 is not zero (the sampled
\* units hold no exponent equal to i8::MIN)
RootCompletesForNonZeroI8 ==
    (last.op = "root" /\ as_i8(last.i) # 0) =>
       \/ res.kind = "ok"
       \/ res.kind = "err" /\ res.err.type = "InvalidRoot"

\* root with index 0 aborts
RootOfIndexZeroPanics ==
    /\ last.op = "root"
    /\ last.i = 0
    /\ last.x0.unit = _METER
    /\ res.kind = "panic"


(***************************************************************************)
(* Texts of array-valued quantities and of the objects of the binding.     *)
(***************************************************************************)
\* the values and units of the quantities whose text is asked for
ReprValues ==
    {f64_ONE, Dec(FALSE, <<2, 5>>, 3), Dec(FALSE, <<5>>, -3), f64_NAN}

ReprUnits == {_KILOGRAM, _JOULE, _AMPERE}

ReprNumbers == {[value |-> v, unit |-> u] : v \in ReprValues, u \in ReprUnits}

ReprArrays ==
    [value : SeqsOfLen({f64_ONE, Dec(FALSE, <<2, 5>>, 1)}, ArrLen),
     unit : ReprUnits]

\* the text of an array of f64: its elements in order, each as `{}` gives it
Array_Display(vs) ==
    "[" \o join([k \in DOMAIN vs |-> f64_Display(vs[k])], ", ") \o "]"

\* the numbers vs printed as the text s
OkText(vs, s) == [Idle EXCEPT !.kind = "ok", !.arrv = vs, !.flag = s]

\* self.to_reduced(*unit).unwrap() of an array
SIArray_to_reduced(a, reference) ==
    [k \in DOMAIN a.value |-> Dec_div(a.value[k], reference.value)]

\* Display for SIArray with the entry d that DERIVED_UNITS.get returned
SIArray_Display_derived(a, d) ==
    OkText(SIArray_to_reduced(a, d.unit),
           Array_Display(SIArray_to_reduced(a, d.unit)) \o " " \o d.symbol)

\* impl Display for SIArray
SIArray_Display(a) ==
    IF a.unit \in DOMAIN DERIVED_UNITS
    THEN SIArray_Display_derived(a, DERIVED_UNITS[a.unit])
    ELSE OkText(a.value, Array_Display(a.value) \o " " \o SIUnit_Display(a.unit))

\* PySIObject::__repr__ of an object whose value is not a float: the text
\* the value gives of itself, one space, the unit
PySIObject_repr(a) ==
    OkText(a.value, Array_Display(a.value) \o " " \o SIUnit_Display(a.unit))

\* format!("{}", arr)
SIArray_fmt_Display ==
    /\ Ready
    /\ res' = SIArray_Display(arr)
    /\ last' = CallArr("Display array")
    /\ UNCHANGED <<build, x, arr, lazy>>

\* repr(obj): obj holds the float x or the array arr
PySIObject___repr__ ==
    /\ Ready
    /\ \/ /\ lazy' = IF Display_has_prefix(x).some
                     THEN [lazy EXCEPT !.PREFIX_SYMBOLS =
                              LazyLock_force(lazy.PREFIX_SYMBOLS, PREFIX_SYMBOLS)]
                     ELSE lazy
          /\ \E lg \in log10_floor_outcomes(Display_value(x), Display_has_prefix(x)) :
                /\ res' = SINumber_Display(x, lg, lazy'.PREFIX_SYMBOLS.map)
                /\ last' = [Call("repr") EXCEPT !.i = lg]
       \/ /\ res' = PySIObject_repr(arr)
          /\ last' = CallArr("repr array")
          /\ lazy' = lazy
    /\ UNCHANGED <<build, x, arr>>

InitRepr ==
    /\ build \in Builds
    /\ lazy = LazyInit
    /\ x \in ReprNumbers
    /\ arr \in ReprArrays
    /\ last = NoCall
    /\ res = Idle

NextRepr ==
    \/ SINumber_fmt_Display
    \/ SINumber_fmt_LowerExp
    \/ SINumber_fmt_UpperExp
    \/ SIArray_fmt_Display
    \/ PySIObject___repr__
    \/ Continue

SpecRepr == InitRepr /\ [][NextRepr]_vars

\* the text is a number, one space, a prefix and the symbol, where the
\* number times the power of ten of the prefix is the value v
DenotesScalar(text, v, symbol) ==
    \E e \in DOMAIN PREFIX_SYMBOLS :
       \E p \in {PREFIX_SYMBOLS[e]} \cup (IF e = 0 THEN {""} ELSE {}) :
          \E t \in {f64_Display(Dec_div_pow10(v, e)),
                    f64_LowerExp(Dec_div_pow10(v, e)),
                    f64_UpperExp(Dec_div_pow10(v, e))} :
             text = Composed(t, p, symbol)

\* the calls that print one number, and those that print an array
ScalarTexts == {"Display", "LowerExp", "UpperExp", "repr"}

ArrayTexts == {"Display array", "repr array"}

\* the number printed before a registry symbol is the value divided by the
\* reference value of the entry, for the calls of the given kinds
ReducedBeforeSymbol(scalars, arrays) ==
    /\ (last.op \in scalars /\ last.x0.unit \in DOMAIN DERIVED_UNITS) =>
          /\ res.kind = "ok"
          /\ DenotesScalar(res.flag,
                           Dec_div(last.x0.value,
                                   DERIVED_UNITS[last.x0.unit].unit.value),
                           DERIVED_UNITS[last.x0.unit].symbol)
    /\ (last.op \in arrays /\ last.arr0.unit \in DOMAIN DERIVED_UNITS) =>
          /\ res.kind = "ok"
          /\ res.flag = Array_Display(res.arrv) \o " "
                           \o DERIVED_UNITS[last.arr0.unit].symbol
          /\ res.arrv = [k \in DOMAIN last.arr0.value |->
                            Dec_div(last.arr0.value[k],
                                    DERIVED_UNITS[last.arr0.unit].unit.value)]

\* C27: on every formatting path (Display, LowerExp and UpperExp of a
\* number, NaN values, arrays, and the repr of the binding for a value
\* that is not a float), a number printed before a registry symbol is the
\* value divided by the reference value of that entry (a mass is never
\* printed as its kilogram value followed by "g").
CE_C27 == ReducedBeforeSymbol(ScalarTexts, ArrayTexts)

\* all paths do so but the repr of a value that is not a float
ReducedButReprOfArray == ReducedBeforeSymbol(ScalarTexts, {"Display array"})

\* the repr of an array of masses: the kilogram values followed by g
ReprOfMassArray ==
    /\ last.op = "repr array"
    /\ last.arr0.unit = _KILOGRAM
    /\ \A k \in DOMAIN last.arr0.value : last.arr0.value[k] = f64_ONE
    /\ res.arrv = last.arr0.value
    /\ \E rest \in {"1]", "1, 1]", "1, 1, 1]"} : res.flag = "[1, " \o rest \o " g"


\* C28: for every value, zero, the infinities and NaN included, and every
\* bound that occurs in DERIVED_UNIT_SYMBOLS, the exponent get_prefix
\* computes is a key of PREFIX_SYMBOLS: its lookup never fails.
Thm_C28 ==
    /\ PrefixBounds = {e[2].hp : e \in {DERIVED_UNIT_SYMBOLS_entries[k] :
                                           k \in DOMAIN DERIVED_UNIT_SYMBOLS_entries}}
    /\ last.op = "get_prefix" =>
          /\ res.kind = "ok"
          /\ last.j \in DOMAIN PREFIX_SYMBOLS
          /\ last.y.some => res.flag = PREFIX_SYMBOLS[last.j]

Wit_C28 ==
    /\ last.op = "get_prefix"
    /\ last.x0.value = Dec(FALSE, <<9, 9, 9, 9, 9, 9, 9, 9, 9, 9, 9, 9, 9, 9, 9, 9>>, 14)
    /\ last.y = Some(PETA)
    /\ last.i = 15
    /\ last.j = 15
    /\ res.kind = "ok"
    /\ res.flag = "P"

\* the infinities and the least eligible value take the exponents 0, -12
Wit_C28_limits ==
    \/ /\ last.op = "get_prefix" /\ last.x0.value = f64_INFINITY
       /\ last.y = Some(PETA) /\ last.j = 0 /\ res.value = f64_INFINITY
    \/ /\ last.op = "get_prefix" /\ last.j = -12 /\ res.flag = "p"


(***************************************************************************)
(* What the entries of the registry hold.                                  *)
(***************************************************************************)
\* f[1] + .. + f[n]
RECURSIVE SumTo(_, _)
SumTo(f, n) == IF n = 0 THEN 0 ELSE SumTo(f, n - 1) + f[n]

\* +1 for a token at the start or after '*', -1 for a token after '/'
TokenSign(tokens, i) == IF i = 1 \/ tokens[i][1] = "*" THEN 1 ELSE -1

\* the expression as it is listed, without the '*' signs
ListedText(tokens) ==
    join([i \in DOMAIN tokens |->
             (IF i > 1 /\ tokens[i][1] = "/" THEN "/" ELSE "") \o tokens[i][2]],
         "")

\* the reference quantity of an atomic symbol
ReferenceOf(symbol) == DERIVED_UNIT_SYMBOLS[symbol].si

\* the product of the reference quantities of the tokens after '*' (and of
\* the first) divided by those of the tokens after '/'; the reference
\* values are powers of ten
FoldedQuantity(tokens) ==
    [value |-> Dec(FALSE, <<1>>,
                   SumTo([i \in DOMAIN tokens |->
                            TokenSign(tokens, i) * ReferenceOf(tokens[i][2]).value.exp],
                         Len(tokens))),
     unit |-> [d \in Dim |->
                  SumTo([i \in DOMAIN tokens |->
                           TokenSign(tokens, i) * ReferenceOf(tokens[i][2]).unit[d]],
                        Len(tokens))]]

\* the sum of recorded exponent times unit vector of the recorded symbol
RecordedSum(e) ==
    [d \in Dim |->
        SumTo([i \in DOMAIN e.symbols |->
                 e.exponents[i] * ReferenceOf(e.symbols[i]).unit[d]],
              Len(e.symbols))]

\* the entry e under key k is the one the expression tokens has to give
EntryOf(k, e, tokens) ==
    /\ e.symbol = ListedText(tokens)
    /\ e.unit = FoldedQuantity(tokens)
    /\ k = e.unit.unit
    /\ Len(e.symbols) = Len(tokens)
    /\ Len(e.exponents) = Len(tokens)
    /\ k = RecordedSum(e)
    /\ e.has_prefix = DERIVED_UNIT_SYMBOLS[tokens[1][2]].hp

\* C29: every listed expression is folded from left to right starting
\* from the dimensionless quantity 1, multiplying by the reference
\* quantity of a token at the start or after '*' and dividing after '/';
\* the key of the entry is the sum over the tokens of recorded exponent
\* times unit vector of the recorded symbol, and the prefix bound of the
\* entry is that of its first token.
Thm_C29 ==
    \A n \in 1..lazy.DERIVED_UNITS.n :
       \E k \in DOMAIN lazy.DERIVED_UNITS.map :
          EntryOf(k, lazy.DERIVED_UNITS.map[k], DERIVED_UNITS_expressions[n])

Wit_C29 ==
    /\ lazy.DERIVED_UNITS.init
    /\ lazy.DERIVED_UNITS.n = Len(DERIVED_UNITS_expressions)
    /\ LET e == lazy.DERIVED_UNITS.map[<<-3, 0, 0, 0, 1, 0, 0>>]
       IN  /\ e.symbol = "mol/m³"
           /\ e.symbols = <<"mol", "m">>
           /\ e.exponents = <<1, -3>>
           /\ e.has_prefix = Some(MEGA)
    /\ LET e == lazy.DERIVED_UNITS.map[<<3, -1, -2, 0, 0, 0, 0>>]
       IN  /\ e.symbol = "m³/kg/s²"
           /\ e.symbols = <<"m", "kg", "s²">>
           /\ e.exponents = <<3, -1, -1>>
           /\ e.has_prefix = None
    /\ lazy.DERIVED_UNITS.map[<<0, 1, 0, 0, -1, 0, 0>>].unit.value
          = Dec(FALSE, <<1>>, -3)


(***************************************************************************)
(* The build script: main of build.rs goes over the pairs (a, b) of       *)
(* exponents and writes the impls of Const<a> op Const<b> to `out`.  A     *)
(* line of `out` is kept as the record of its trait, its two exponents and *)
(* its Output.  last.i and last.j hold a and b, res.arrv holds `out`.      *)
(***************************************************************************)
\* one line: impl $trt<Const<b>> for Const<a> { type Output = Const<output>; .. }
impl_line(trt, a, b, output) ==
    [trt |-> trt, lhs |-> a, rhs |-> b, output |-> output]

\* result >= min && result <= max
within_min_max(n) == n >= MinExp /\ n <= MaxExp

\* a slip: the division written for every b other than 0
main_pair_slip(a, b) ==
    (IF within_min_max(a + b) THEN {impl_line("Add", a, b, a + b)} ELSE {})
    \cup (IF within_min_max(a - b) THEN {impl_line("Sub", a, b, a - b)} ELSE {})
    \cup (IF within_min_max(a * b) THEN {impl_line("Mul", a, b, a * b)} ELSE {})
    \cup (IF b # 0 /\ within_min_max(i32_div(a, b))
          THEN {impl_line("Div", a, b, i32_div(a, b))} ELSE {})

\* the lines written in the body of `for b in min..=max`
main_pair(a, b) ==
    (IF within_min_max(a + b) THEN {impl_line("Add", a, b, a + b)} ELSE {})
    \cup (IF within_min_max(a - b) THEN {impl_line("Sub", a, b, a - b)} ELSE {})
    \cup (IF within_min_max(a * b) THEN {impl_line("Mul", a, b, a * b)} ELSE {})
    \cup (IF b # 0 /\ i32_rem(a, b) = 0 /\ within_min_max(i32_div(a, b))
          THEN {impl_line("Div", a, b, i32_div(a, b))} ELSE {})

\* the line of the negation, written before the loop over b
main_neg(a) ==
    IF within_min_max(-a) THEN {impl_line("Neg", a, a, -a)} ELSE {}

\* main has not finished
main_running == last.op = "main" /\ res.kind = "none"

\* one pass of the inner loop, with the line of the negation before the
\* first pass for a
main_loop ==
    /\ main_running
    /\ last.i <= MaxExp
    /\ res' = [res EXCEPT !.arrv =
                  res.arrv
                  \cup (IF last.j = MinExp THEN main_neg(last.i) ELSE {})
                  \cup main_pair(last.i, last.j)]
    /\ last' = IF last.j < MaxExp
               THEN [last EXCEPT !.j = last.j + 1]
               ELSE [last EXCEPT !.i = last.i + 1, !.j = MinExp]
    /\ UNCHANGED <<build, x, arr, lazy>>

\* fs::write(&dest_path, out) after the loops
main_write ==
    /\ main_running
    /\ last.i > MaxExp
    /\ res' = [res EXCEPT !.kind = "ok"]
    /\ UNCHANGED <<build, x, arr, lazy, last>>

InitBuild ==
    /\ build \in Builds
    /\ lazy = LazyInit
    /\ x = [value |-> F64(1), unit |-> DIMENSIONLESS]
    /\ arr = _ARRAY0
    /\ last = [NoCall EXCEPT !.op = "main", !.i = MinExp, !.j = MinExp]
    /\ res = [Idle EXCEPT !.arrv = {}]

NextBuild ==
    \/ main_loop
    \/ main_write

SpecBuild == InitBuild /\ [][NextBuild]_vars

\* the pairs whose pass of the inner loop is over
PairsDone ==
    {p \in (MinExp..MaxExp) \X (MinExp..MaxExp) :
        p[1] < last.i \/ (p[1] = last.i /\ p[2] < last.j)}

\* the pair of the pass that has just ended
PairJustDone ==
    {p \in PairsDone :
        \/ p[1] = last.i /\ p[2] = last.j - 1
        \/ p[1] = last.i - 1 /\ p[2] = MaxExp /\ last.j = MinExp}

\* b divides a exactly, with quotient q
ExactQuotient(a, b, q) == b # 0 /\ q * b = a

\* the exact result of the operation, if it has one
ExactResults(trt, a, b) ==
    CASE trt = "Add" -> {a + b}
      [] trt = "Sub" -> {a - b}
      [] trt = "Mul" -> {a * b}
      [] trt = "Div" -> {q \in (MinExp * MaxExp)..(MaxExp * MaxExp) : ExactQuotient(a, b, q)}
      [] trt = "Neg" -> {-a}

\* the Output of a line is the exact result and lies in MinExp..MaxExp
OutputExact(r) ==
    /\ r.output \in ExactResults(r.trt, r.lhs, r.rhs)
    /\ r.output \in MinExp..MaxExp
    /\ r.lhs \in MinExp..MaxExp /\ r.rhs \in MinExp..MaxExp

\* the lines of the pair p are written exactly when the claim says so
WrittenIff(p) ==
    /\ \A trt \in {"Add", "Sub", "Mul"} :
          \A n \in ExactResults(trt, p[1], p[2]) :
             impl_line(trt, p[1], p[2], n) \in res.arrv <=> n \in MinExp..MaxExp
    /\ (\E q \in MinExp..MaxExp : impl_line("Div", p[1], p[2], q) \in res.arrv)
          <=> (p[2] # 0 /\ ExactResults("Div", p[1], p[2]) # {})

\* C30: for every pair (a, b) of exponents in MinExp..MaxExp the generator
\* writes an Add, Sub or Mul impl iff the exact a+b, a-b or a*b lies in
\* MinExp..MaxExp, a Div impl iff b is not 0 and divides a exactly, and
\* the Output of every impl written is the exact result and lies in
\* MinExp..MaxExp: so for the pair of each pass when the pass ends, and
\* for every pair and every line of the file that main writes.
Thm_C30 ==
    /\ \A p \in PairJustDone :
          /\ WrittenIff(p)
          /\ \A r \in res.arrv : (r.lhs = p[1] /\ r.rhs = p[2]) => OutputExact(r)
    /\ res.kind = "ok" =>
          /\ PairsDone = (MinExp..MaxExp) \X (MinExp..MaxExp)
          /\ \A r \in res.arrv : OutputExact(r)
          /\ \A p \in PairsDone : WrittenIff(p)

Wit_C30 ==
    /\ res.kind = "ok"
    /\ impl_line("Div", -20, -4, 5) \in res.arrv
    /\ impl_line("Mul", -5, -4, 20) \in res.arrv
    /\ impl_line("Add", 20, 0, 20) \in res.arrv
    /\ \A q \in MinExp..MaxExp :
          /\ impl_line("Div", 7, 2, q) \notin res.arrv
          /\ impl_line("Div", 7, 0, q) \notin res.arrv
          /\ impl_line("Add", 20, 1, q) \notin res.arrv
          /\ impl_line("Mul", 5, 5, q) \notin res.arrv

====
